---- MODULE Spec2Model ----
(***************************************************************************)
(* Job orchestration of the fluorescence analysis backend:                 *)
(*   services/job_registry.py      JobRegistry (process-wide job store)    *)
(*   services/fluorescence_service.py  create_analysis_job,                *)
(*                                 execute_analysis, get_job_status        *)
(*   routers/fluorescence.py       submit_analysis, get_job_status,        *)
(*                                 get_job_results                         *)
(*   schemas/fluorescence.py       AnalyzeRequest and its validators       *)
(*                                                                         *)
(* execute_analysis runs as a background task in a worker thread while     *)
(* request handlers run in other threads; JobRegistry takes no lock, so    *)
(* the unit of interleaving is one dictionary read or write.               *)
(*                                                                         *)
(* The functions execute_analysis calls (resolve_data_items,               *)
(* build_datasets, analyze_single_event / analyze_multi_event,             *)
(* save_result) are represented by their possible outcomes: a normal       *)
(* return or an exception.  The body of execute_analysis itself is         *)
(* modelled statement by statement.                                        *)
(***************************************************************************)
EXTENDS Integers, Sequences, FiniteSets, TLC

\* ------------------------------------------------------------------ bounds
MaxJobs == 1

JobIds == 1..MaxJobs
Projects == {"P1", "P2"}

\* ------------------------------------------------------------ JobStatus
QUEUED == "queued"
RUNNING == "running"
SUCCEEDED == "succeeded"
FAILED == "failed"
JobStatus == {QUEUED, RUNNING, SUCCEEDED, FAILED}
Terminal == {SUCCEEDED, FAILED}

\* Python None for string-valued slots.
None == "None"
\* Marker for an absent registry entry (self._jobs.get(job_id) is None).
NoJob == [jobId |-> 0]

VARIABLES
    jobs,       \* JobRegistry._jobs: job id -> job dict, or NoJob
    pc,         \* per job: position of its execute_analysis background task
    wr,         \* per job: field writes of the update_job call in progress
    caught,     \* per job: the exception execute_analysis caught, or NoExc
    outcomes,   \* per job: outcomes of the calls execute_analysis has made
    resultFile, \* per job: result.json has been written by save_result
    snaps,      \* per job: (status, progress, message) at call boundaries
    client,     \* the HTTP exchange in progress, or its response
    registry,   \* JobRegistry._jobs as a dict: job dicts in insertion order
    now,        \* datetime.utcnow(), in hours
    issued,     \* number of job ids uuid4 has produced
    files,      \* per job id: the job dict last written to status.json
    sweep,      \* the cleanup_old_jobs call in progress: its local variables
    invoked,    \* the function call under examination: name and arguments
    ret         \* what that call returned or raised

\* The job orchestration state, and the state of the registry and library
\* functions examined on their own.
jobvars == <<jobs, pc, wr, caught, outcomes, resultFile, snaps, client>>
libvars == <<registry, now, issued, files, sweep, invoked, ret>>
vars == <<jobs, pc, wr, caught, outcomes, resultFile, snaps, client,
          registry, now, issued, files, sweep, invoked, ret>>

\* ------------------------------------------------------------ exceptions
NoExc == [type |-> None, text |-> None, progress |-> -1]
Exc(type, text, p) == [type |-> type, text |-> text, progress |-> p]

\* Classes below Exception in the Python hierarchy that the callees and
\* the body of execute_analysis raise.
ExceptionClasses == {"ValueError", "AttributeError", "OSError", "TypeError"}

\* `except Exception as e` (fluorescence_service.py:328)
except_Exception_narrow(e) == e.type = "ValueError"
except_Exception(e) == e.type \in ExceptionClasses

\* ------------------------------------------------------------ update_job
\* update_job(job_id, status, progress, message, error): the assignments it
\* performs, in source order; an argument left None is not written.
Write(field, value) == <<field, value>>

update_job(status, progress, message, error) ==
    (IF status = None THEN <<>> ELSE <<Write("status", status)>>)
    \o (IF progress = -1 THEN <<>> ELSE <<Write("progress", progress)>>)
    \o (IF message = None THEN <<>> ELSE <<Write("message", message)>>)
    \o (IF error = None THEN <<>> ELSE <<Write("error", error)>>)

\* create_job: the job dict stored under job_id.
create_job(job_id, project_id) ==
    [jobId |-> job_id, projectId |-> project_id, status |-> QUEUED,
     progress |-> 0, message |-> "Task queued", error |-> None]

Triple(job) == <<job.status, job.progress, job.message>>

\* ------------------------------------------------------ execute_analysis
\* Fields declared by AnalyzeRequest (schemas/fluorescence.py:93-117);
\* reading any other attribute of a pydantic model raises AttributeError.
AnalyzeRequestFields ==
    {"selection", "fps", "mode", "algorithmType", "events", "baselineWindow",
     "responseWindow", "groups", "offsetWindow", "outputs", "columnMap",
     "labelMapping", "masks"}

\* Outcomes of the calls made by execute_analysis.
ResolveOutcomes == {"items", "no_items", "resolve_raised"}
BuildOutcomes == {"datasets", "no_datasets", "build_raised"}
\* "empty_result": analyze returned an AnalysisResult without matrices
\* (fluorescence_algo.py: no label or group yields a trial); execute_analysis
\* does not inspect the result before formatting it.
AnalyzeOutcomes == {"result", "empty_result", "analysis_raised"}
SaveOutcomes == {"saved", "save_raised"}
FailureOutcomes ==
    {"no_items", "resolve_raised", "no_datasets", "build_raised",
     "analysis_raised", "save_raised"}

\* The update_job calls of execute_analysis, in source order.
CallStart_skip_running ==
    update_job(None, 5, "Resolving data selection...", None)
CallStart == update_job(RUNNING, 5, "Resolving data selection...", None)

StageProgress_swapped(stage) ==
    CASE stage = "found" -> 10
      [] stage = "building" -> 40
      [] stage = "built" -> 20
      [] stage = "running" -> 50
      [] stage = "formatting" -> 80
      [] stage = "saving" -> 90
StageProgress(stage) ==
    CASE stage = "found" -> 10
      [] stage = "building" -> 20
      [] stage = "built" -> 40
      [] stage = "running" -> 50
      [] stage = "formatting" -> 80
      [] stage = "saving" -> 90

StageMessage(stage) ==
    CASE stage = "found" -> "Found data items"
      [] stage = "building" -> "Building datasets..."
      [] stage = "built" -> "Built dataset(s)"
      [] stage = "running" -> "Running analysis algorithm..."
      [] stage = "formatting" -> "Analysis completed, formatting results..."
      [] stage = "saving" -> "Saving results..."

CallStage(stage) ==
    update_job(None, StageProgress(stage), StageMessage(stage), None)

CallSucceeded ==
    update_job(SUCCEEDED, 100, "Analysis completed successfully", None)

CallFailed_no_status(e) == update_job(None, 0, "Analysis failed", e.text)
CallFailed_keep_progress(e) ==
    update_job(FAILED, -1, "Analysis failed", e.text)
CallFailed(e) == update_job(FAILED, 0, "Analysis failed", e.text)

\* execute_analysis returns after the except block (line 337).
AfterFailed_rerun == "scheduled"
AfterFailed == "done"

\* A statement of the try block raises e: the except clause turns it into
\* the failed update, anything it does not catch leaves the task.
Raise(j, e) ==
    /\ caught' = [caught EXCEPT ![j] = e]
    /\ IF except_Exception(e)
       THEN /\ wr' = [wr EXCEPT ![j] = CallFailed(e)]
            /\ pc' = [pc EXCEPT ![j] = AfterFailed]
       ELSE /\ wr' = wr
            /\ pc' = [pc EXCEPT ![j] = "crashed"]

Proceed(j, call, next) ==
    /\ wr' = [wr EXCEPT ![j] = call]
    /\ pc' = [pc EXCEPT ![j] = next]
    /\ caught' = caught

Note(j, o) == outcomes' = [outcomes EXCEPT ![j] = Append(@, o)]

\* Where execute_analysis continues after its final update_job call.
AfterSucceeded == "done"

\* One assignment of the update_job call in progress for job j
\* (job_registry.py:87-94).  The call returns after its last assignment.
WriteField(j) ==
    /\ wr[j] # <<>>
    /\ jobs[j] # NoJob
    /\ jobs' = [jobs EXCEPT ![j] = [@ EXCEPT ![Head(wr[j])[1]] = Head(wr[j])[2]]]
    /\ wr' = [wr EXCEPT ![j] = Tail(@)]
    /\ snaps' = [snaps EXCEPT ![j] =
                    IF Len(wr[j]) = 1 THEN @ \cup {Triple(jobs'[j])} ELSE @]
    /\ UNCHANGED <<pc, caught, outcomes, resultFile, client>>
    /\ UNCHANGED libvars

\* Exceptions by origin.
NoItemsError(p) ==
    Exc("ValueError", "No data items found for the given selection", p)
ResolveError(p) ==
    Exc("AttributeError", "type object 'DataItem' has no attribute 'id'", p)
NoDatasetsError(p) == Exc("ValueError", "No valid datasets could be built", p)
BuildError(p) == Exc("TypeError", "build_datasets raised", p)
AnalysisError(p) == Exc("ValueError", "analysis raised", p)
FieldError(p) ==
    Exc("AttributeError",
        "'AnalyzeRequest' object has no attribute 'fluorSelection'", p)
SaveError(p) == Exc("OSError", "save_result raised", p)

\* fluorescence_service.py:235
StartStep(j) ==
    /\ Proceed(j, CallStart, "resolve")
    /\ UNCHANGED <<outcomes, resultFile>>

\* fluorescence_service.py:238-242
ResolveStep(j, p) ==
    \E o \in ResolveOutcomes :
        /\ Note(j, o)
        /\ UNCHANGED resultFile
        /\ IF o = "items" THEN Proceed(j, CallStage("found"), "found")
           ELSE IF o = "no_items" THEN Raise(j, NoItemsError(p))
           ELSE Raise(j, ResolveError(p))

\* fluorescence_service.py:245
FoundStep(j) ==
    /\ Proceed(j, CallStage("building"), "build")
    /\ UNCHANGED <<outcomes, resultFile>>

\* fluorescence_service.py:246-251
BuildStep(j, p) ==
    \E o \in BuildOutcomes :
        /\ Note(j, o)
        /\ UNCHANGED resultFile
        /\ IF o = "datasets" THEN Proceed(j, CallStage("built"), "built")
           ELSE IF o = "no_datasets" THEN Raise(j, NoDatasetsError(p))
           ELSE Raise(j, BuildError(p))

\* fluorescence_service.py:254-273
BuiltStep(j) ==
    /\ Proceed(j, CallStage("running"), "analyze")
    /\ UNCHANGED <<outcomes, resultFile>>

\* fluorescence_service.py:275-280
AnalyzeStep(j, p) ==
    \E o \in AnalyzeOutcomes :
        /\ Note(j, o)
        /\ UNCHANGED resultFile
        /\ IF o \in {"result", "empty_result"}
           THEN Proceed(j, CallStage("formatting"), "format")
           ELSE Raise(j, AnalysisError(p))

\* fluorescence_service.py:284-317: the first statement after the set is
\* created reads request.fluorSelection.  FormatStep_fields_declared is the
\* step of a request schema that declares fluorSelection and labelSelection.
FormatStep_fields_declared(j, p) ==
    /\ UNCHANGED <<outcomes, resultFile>>
    /\ Proceed(j, CallStage("saving"), "save")
FormatStep(j, p) ==
    /\ UNCHANGED <<outcomes, resultFile>>
    /\ IF {"fluorSelection", "labelSelection"} \subseteq AnalyzeRequestFields
       THEN Proceed(j, CallStage("saving"), "save")
       ELSE Raise(j, FieldError(p))

\* fluorescence_service.py:318-326
SaveStep(j, p) ==
    \E o \in SaveOutcomes :
        /\ Note(j, o)
        /\ IF o = "saved"
           THEN /\ resultFile' = [resultFile EXCEPT ![j] = TRUE]
                /\ Proceed(j, CallSucceeded, AfterSucceeded)
           ELSE /\ UNCHANGED resultFile
                /\ Raise(j, SaveError(p))

\* The next statement of execute_analysis for job j, between update_job
\* calls (fluorescence_service.py:233-337).
ExecStep(j) ==
    /\ wr[j] = <<>>
    /\ pc[j] \notin {"none", "done", "crashed"}
    /\ LET p == jobs[j].progress IN
       CASE pc[j] = "scheduled" -> StartStep(j)
         [] pc[j] = "resolve" -> ResolveStep(j, p)
         [] pc[j] = "found" -> FoundStep(j)
         [] pc[j] = "build" -> BuildStep(j, p)
         [] pc[j] = "built" -> BuiltStep(j)
         [] pc[j] = "analyze" -> AnalyzeStep(j, p)
         [] pc[j] = "format" -> FormatStep(j, p)
         [] pc[j] = "save" -> SaveStep(j, p)
    /\ UNCHANGED <<jobs, snaps, client>>
    /\ UNCHANGED libvars

\* ------------------------------------------------------- AnalyzeRequest
\* A request body, field by field.  An Optional field is left out
\* ("missing"), sent as null, or sent with a value; both of the first two
\* parse to None, but a field validator only runs on a field that was sent.
ListValues == {"missing", "null", "empty", "nonempty"}
WindowValues == {"missing", "null", "present"}
TagFilterValues == {"missing", "null", "empty_lists", "tags"}
ColumnValues == {"missing", "", "col"}

Requests ==
    [mode : {"single", "multi"},
     events : ListValues,
     baselineWindow : WindowValues,
     responseWindow : WindowValues,
     groups : ListValues,
     dataItemIds : ListValues,
     tagFilter : TagFilterValues,
     behavior : ColumnValues,
     start : ColumnValues]

IsNone(v) == v \in {"missing", "null"}
\* Python truthiness of a parsed field: None, [] and "" are falsy; a
\* TimeWindow or TagFilter object is truthy whatever it holds.
Truthy(v) == v \in {"nonempty", "present", "empty_lists", "tags", "col"}

\* DataSelection.check_selection (schemas/fluorescence.py:57-65)
check_selection(req) ==
    ~(req.tagFilter = "null" /\ IsNone(req.dataItemIds))

\* AnalyzeRequest.check_single_mode (schemas/fluorescence.py:119-125)
check_single_mode(req) ==
    ~(req.mode = "single"
      /\ "null" \in {req.events, req.baselineWindow, req.responseWindow})

\* AnalyzeRequest.check_multi_mode (schemas/fluorescence.py:127-133)
check_multi_mode(req) == ~(req.mode = "multi" /\ req.groups = "null")

\* ColumnMap: behavior and start are required fields
\* (schemas/fluorescence.py:37-38).
ColumnMapParses(req) == req.behavior # "missing" /\ req.start # "missing"

\* The request body parses into an AnalyzeRequest (else FastAPI answers 422
\* and the handler does not run).
SchemaValid(req) ==
    /\ check_selection(req)
    /\ check_single_mode(req)
    /\ check_multi_mode(req)
    /\ ColumnMapParses(req)

\* The checks of submit_analysis (routers/fluorescence.py:161-184).
RouterValid_no_window_check(req) ==
    /\ req.mode = "single" => Truthy(req.events)
    /\ req.mode = "multi" => Truthy(req.groups)
    /\ Truthy(req.dataItemIds) \/ Truthy(req.tagFilter)
    /\ Truthy(req.behavior) /\ Truthy(req.start)
RouterValid(req) ==
    /\ req.mode = "single" =>
          /\ Truthy(req.events)
          /\ Truthy(req.baselineWindow)
          /\ Truthy(req.responseWindow)
    /\ req.mode = "multi" => Truthy(req.groups)
    /\ Truthy(req.dataItemIds) \/ Truthy(req.tagFilter)
    /\ Truthy(req.behavior) /\ Truthy(req.start)

SubmitCode(req) ==
    IF ~SchemaValid(req) THEN 422
    ELSE IF ~RouterValid(req) THEN 400
    ELSE 200

\* --------------------------------------------------------------- client
Idle == [kind |-> "idle"]
Responded == {"submitted", "status_response", "results_response"}

FreeIds == {j \in JobIds : jobs[j] = NoJob /\ pc[j] = "none"}
\* uuid.uuid4(): an id no job has had.
FreshId == CHOOSE j \in FreeIds : \A k \in FreeIds : j <= k

\* POST /projects/{project_id}/analyze (routers/fluorescence.py:134-205)
\* with create_analysis_job (fluorescence_service.py:181-215).
submit_analysis(project, req) ==
    /\ client = Idle
    /\ IF SubmitCode(req) = 200
       THEN /\ FreeIds # {}
            /\ jobs' = [jobs EXCEPT ![FreshId] = create_job(FreshId, project)]
            /\ pc' = [pc EXCEPT ![FreshId] = "scheduled"]
            /\ snaps' = [snaps EXCEPT ![FreshId] = {Triple(jobs'[FreshId])}]
            /\ client' = [kind |-> "submitted", project |-> project,
                          req |-> req, code |-> 200, jobId |-> FreshId]
       ELSE /\ UNCHANGED <<jobs, pc, snaps>>
            /\ client' = [kind |-> "submitted", project |-> project,
                          req |-> req, code |-> SubmitCode(req), jobId |-> 0]
    /\ UNCHANGED <<wr, caught, outcomes, resultFile>>
    /\ UNCHANGED libvars

\* GET /projects/{project_id}/jobs/{job_id}: get_job_status looks the job up
\* (fluorescence_service.py:398-400) ...
StatusFields == <<"status", "progress", "message", "error">>

StatusBegin(project, j) ==
    /\ client = Idle
    /\ client' = IF jobs[j] = NoJob
                 THEN [kind |-> "status_response", project |-> project,
                       jobId |-> j, code |-> 404, got |-> <<>>]
                 ELSE [kind |-> "status", jobId |-> j, got |-> <<>>]
    /\ UNCHANGED <<jobs, pc, wr, caught, outcomes, resultFile, snaps>>
    /\ UNCHANGED libvars

\* ... and then reads the fields of the job dict one after the other
\* (fluorescence_service.py:402-411); the router answers 403 for a job of
\* another project (routers/fluorescence.py:264-267).  The project of the
\* request is not used before that comparison.
StatusRead(project) ==
    /\ client.kind = "status"
    /\ LET j == client.jobId
           got == Append(client.got, jobs[j][StatusFields[Len(client.got) + 1]])
       IN IF Len(got) < Len(StatusFields)
          THEN client' = [client EXCEPT !.got = got]
          ELSE client' = IF jobs[j].projectId # project
                         THEN [kind |-> "status_response", project |-> project,
                               jobId |-> j, code |-> 403, got |-> <<>>]
                         ELSE [kind |-> "status_response", project |-> project,
                               jobId |-> j, code |-> 200, got |-> got]
    /\ UNCHANGED <<jobs, pc, wr, caught, outcomes, resultFile, snaps>>
    /\ UNCHANGED libvars

\* GET /projects/{project_id}/jobs/{job_id}/results
\* (routers/fluorescence.py:270-313, get_job_result
\* fluorescence_service.py:414-426).
ResultsCode_not_found(job, project, file) ==
    IF job = NoJob THEN 404
    ELSE IF job.projectId # project THEN 403
    ELSE IF job.status # SUCCEEDED THEN 404
    ELSE IF ~file THEN 404
    ELSE 200
ResultsCode(job, project, file) ==
    IF job = NoJob THEN 404
    ELSE IF job.projectId # project THEN 403
    ELSE IF job.status # SUCCEEDED THEN 400
    ELSE IF ~file THEN 404
    ELSE 200

get_job_results(project, j) ==
    /\ client = Idle
    /\ client' = [kind |-> "results_response", project |-> project,
                  jobId |-> j,
                  seen |-> IF jobs[j] = NoJob THEN None ELSE jobs[j].status,
                  owner |-> IF jobs[j] = NoJob THEN None ELSE jobs[j].projectId,
                  code |-> ResultsCode(jobs[j], project, resultFile[j])]
    /\ UNCHANGED <<jobs, pc, wr, caught, outcomes, resultFile, snaps>>
    /\ UNCHANGED libvars

\* The client has received the response.
ClientDone ==
    /\ client.kind \in Responded
    /\ client' = Idle
    /\ UNCHANGED <<jobs, pc, wr, caught, outcomes, resultFile, snaps>>
    /\ UNCHANGED libvars

\* ------------------------------------------------------ function calls
\* A call examined on its own: its name and arguments are in `invoked`, what
\* it returned or raised in `ret`.
NoCall == [fn |-> "none"]
Pending == [kind |-> "pending"]
Returned(value) == [kind |-> "returned", value |-> value]
Raised(exc) == [kind |-> "raised", exc |-> exc]
\* No cleanup_old_jobs call is in progress.
NoSweep == [phase |-> "idle"]

\* ---------------------------------------------------- resolve_data_items
MaxItems == 2
MaxTags == 2

ItemIds == 1..MaxItems
TagIds == 1..MaxTags

\* The DataItem table: projectId and tagIds of each row
\* (models/data_item.py:16-21).
DataItemTables == [ItemIds -> [projectId : Projects, tagIds : SUBSET TagIds]]

\* Attributes the DataItem model declares (models/data_item.py:16-37);
\* reading any other attribute of the class raises AttributeError.
DataItemAttributes ==
    {"dataItemId", "name", "userId", "projectId", "subjectId", "tagIds",
     "fileDescription", "filePath", "fileName", "fileType", "dataType",
     "createdAt", "updatedAt", "owner", "project", "subject"}

\* A tag id as select_by_tags receives it: an int, or a value of another
\* type such as the string "1".  A TagFilter only holds ints.
IntTag(t) == [type |-> "int", value |-> t]
StrTag(t) == [type |-> "str", value |-> t]
isinstance_int(tid) == tid.type = "int"

\* TagFilter.model_dump(): a dict keyed by the field names, not by the
\* aliases "and" / "or" (schemas/fluorescence.py:43-49).
model_dump(tagFilter) ==
    [k \in {"and_tags", "or_tags"} |-> {IntTag(t) : t \in tagFilter[k]}]

\* dict.get(key, default)
dict_get(d, key, default) == IF key \in DOMAIN d THEN d[key] ELSE default

\* select_by_tags (tag_selector.py:14-73), item_type left None.  The tag
\* lists are given as sets: the function only tests them for emptiness
\* and membership.  Lines 55-62 and 65-71: the ids that are not ints are
\* dropped, and the filter on DataItem.tags is built from the others.
select_by_tags(db, project_id, tag_filter) ==
    LET and_tags == dict_get(tag_filter, "and", {})
        or_tags == dict_get(tag_filter, "or", {})
        valid_and_tags == {tid.value : tid \in {t \in and_tags : isinstance_int(t)}}
        valid_or_tags == {tid.value : tid \in {t \in or_tags : isinstance_int(t)}}
    IN IF and_tags = {} /\ or_tags = {}
       THEN Returned({})
       ELSE IF and_tags # {} /\ valid_and_tags = {}
       THEN Returned({})
       ELSE IF and_tags # {} /\ "tags" \notin DataItemAttributes
       THEN Raised("AttributeError")
       ELSE IF or_tags # {} /\ valid_or_tags = {}
       THEN Returned({})
       ELSE IF or_tags # {} /\ "tags" \notin DataItemAttributes
       THEN Raised("AttributeError")
       ELSE Returned({i \in ItemIds :
                /\ db[i].projectId = project_id
                /\ valid_and_tags \subseteq db[i].tagIds
                /\ or_tags # {} => valid_or_tags \cap db[i].tagIds # {}})

\* get_data_items_by_ids (tag_selector.py:76-97)
get_data_items_by_ids(db, project_id, data_item_ids) ==
    IF "id" \notin DataItemAttributes
    THEN Raised("AttributeError")
    ELSE Returned({i \in ItemIds :
                      i \in data_item_ids /\ db[i].projectId = project_id})

\* Python None in a slot that holds a list of ids, and in one that holds
\* a TagFilter.
NoIds == {0}
NoTagFilter == [none |-> TRUE]

\* resolve_data_items (fluorescence_service.py:40-63).  dataItemIds is
\* None or a set of ids, tagFilter None or a TagFilter; a TagFilter object
\* is truthy whatever its lists hold.
resolve_data_items(db, project_id, selection) ==
    IF selection.dataItemIds # NoIds /\ selection.dataItemIds # {}
    THEN get_data_items_by_ids(db, project_id, selection.dataItemIds)
    ELSE IF selection.tagFilter # NoTagFilter
    THEN select_by_tags(db, project_id, model_dump(selection.tagFilter))
    ELSE Returned({})

TagFilters == [and_tags : SUBSET TagIds, or_tags : SUBSET TagIds]
\* DataSelection values that reach execute_analysis: those that pass the
\* selection check of submit_analysis (routers/fluorescence.py:176).
Selections ==
    {sel \in [dataItemIds : {NoIds, {}, {1}},
              tagFilter : TagFilters \cup {NoTagFilter}] :
        sel.dataItemIds \notin {NoIds, {}} \/ sel.tagFilter # NoTagFilter}

ResolveCalls ==
    [fn : {"resolve_data_items"}, db : DataItemTables,
     project_id : Projects, selection : Selections]

resolve_call ==
    /\ invoked.fn = "resolve_data_items"
    /\ ret = Pending
    /\ ret' = resolve_data_items(invoked.db, invoked.project_id,
                                  invoked.selection)
    /\ UNCHANGED <<jobvars, registry, now, issued, files, sweep, invoked>>

\* select_by_tags called with a dict keyed "and" / "or" whose lists may
\* hold ids that are not ints.
RawTags == {IntTag(t) : t \in TagIds} \cup {StrTag(1)}
TagCalls ==
    [fn : {"select_by_tags"}, db : DataItemTables, project_id : Projects,
     tag_filter : [{"and", "or"} -> SUBSET RawTags]]

tags_call ==
    /\ invoked.fn = "select_by_tags"
    /\ ret = Pending
    /\ ret' = select_by_tags(invoked.db, invoked.project_id,
                             invoked.tag_filter)
    /\ UNCHANGED <<jobvars, registry, now, issued, files, sweep, invoked>>

\* ------------------------------------------------------------ JobRegistry
\* The registry with its insertion order, timestamps and snapshot files,
\* used through its own interface: create_job, update_job, list_jobs,
\* cleanup_old_jobs.  Each create_job and update_job call is one step here.
MaxRegJobs == 1
MaxListJobs == 3
MaxSweepJobs == 2
MaxClock == 2

\* max_age_hours arguments.
MaxAges == {0, 1}

\* create_job (job_registry.py:53-63): the job dict with its timestamps.
stored_job(job_id, project_id, t) ==
    [createdAt |-> t, updatedAt |-> t] @@ create_job(job_id, project_id)

\* Position of job_id in the registry, 0 if it has no entry.
RegIndex(reg, job_id) ==
    IF \E i \in 1..Len(reg) : reg[i].jobId = job_id
    THEN CHOOSE i \in 1..Len(reg) : reg[i].jobId = job_id
    ELSE 0

\* _persist_job (job_registry.py:125-142): the file content after the
\* call and whether the call raised; OSError / IOError from mkdir, open or
\* json.dump is caught and printed.
persist_job_uncaught(job, file, writable) ==
    IF writable THEN [file |-> job, raised |-> FALSE]
    ELSE [file |-> file, raised |-> TRUE]
persist_job(job, file, writable) ==
    IF writable THEN [file |-> job, raised |-> FALSE]
    ELSE [file |-> file, raised |-> FALSE]

\* The assignments of an update_job call applied to a job dict
\* (job_registry.py:87-96).
RECURSIVE ApplyWrites(_, _)
ApplyWrites(job, ws) ==
    IF ws = <<>> THEN job
    ELSE ApplyWrites([job EXCEPT ![Head(ws)[1]] = Head(ws)[2]], Tail(ws))

\* The arguments of the update_job calls execute_analysis makes on a job
\* from its state on (fluorescence_service.py:235-335): the start, the
\* first stage, and the failure update of the except block.
CallArgs(status, progress, message, error) ==
    [status |-> status, progress |-> progress, message |-> message,
     error |-> error]
RegistryCalls(job) ==
    IF job.status = QUEUED
    THEN {CallArgs(RUNNING, 5, "Resolving data selection...", None)}
    ELSE IF job.status = RUNNING /\ job.progress = 5
    THEN {CallArgs(None, StageProgress("found"), StageMessage("found"), None),
          CallArgs(FAILED, 0, "Analysis failed", NoItemsError(5).text)}
    ELSE IF job.status = RUNNING
    THEN {CallArgs(FAILED, 0, "Analysis failed", ResolveError(10).text)}
    ELSE {}

\* JobRegistry.create_job (job_registry.py:34-70) as called by
\* create_analysis_job, which always passes a persist_dir.
reg_create(project_id, writable) ==
    /\ invoked = NoCall
    /\ LET job_id == issued + 1
           job == stored_job(job_id, project_id, now)
           p == persist_job(job, NoJob, writable)
       IN /\ registry' = Append(registry, job)
          /\ issued' = job_id
          /\ files' = Append(files, p.file)
          /\ invoked' = [fn |-> "create_job", job_id |-> job_id,
                         written |-> writable]
          /\ ret' = IF p.raised THEN Raised("OSError") ELSE Returned(job)
    /\ UNCHANGED <<jobvars, now, sweep>>

\* JobRegistry.update_job (job_registry.py:72-102) on a job of the
\* registry.
reg_update(job_id, writable) ==
    /\ invoked = NoCall
    /\ RegIndex(registry, job_id) # 0
    /\ LET i == RegIndex(registry, job_id)
       IN \E args \in RegistryCalls(registry[i]) :
            LET ws == update_job(args.status, args.progress, args.message,
                                 args.error)
                job == [ApplyWrites(registry[i], ws) EXCEPT !.updatedAt = now]
                p == persist_job(job, files[job_id], writable)
            IN /\ registry' = [registry EXCEPT ![i] = job]
               /\ files' = [files EXCEPT ![job_id] = p.file]
               /\ invoked' = [fn |-> "update_job", job_id |-> job_id,
                              written |-> writable, args |-> args,
                              before |-> registry[i]]
               /\ ret' = IF p.raised THEN Raised("OSError")
                         ELSE Returned(job)
    /\ UNCHANGED <<jobvars, now, issued, sweep>>

\* Time passes.
tick ==
    /\ now < MaxClock
    /\ now' = now + 1
    /\ UNCHANGED <<jobvars, registry, issued, files, sweep, invoked, ret>>

\* list.sort(key=createdAt, reverse=True): descending and stable, equal
\* keys keep their original order.
RECURSIVE InsertDesc(_, _)
InsertDesc(sorted, job) ==
    IF sorted = <<>> THEN <<job>>
    ELSE IF Head(sorted).createdAt >= job.createdAt
    THEN <<Head(sorted)>> \o InsertDesc(Tail(sorted), job)
    ELSE <<job>> \o sorted
RECURSIVE SortDesc(_)
SortDesc(seq) ==
    IF seq = <<>> THEN <<>>
    ELSE InsertDesc(SortDesc(SubSeq(seq, 1, Len(seq) - 1)), seq[Len(seq)])

\* The fields list_project_jobs copies into a JobStatusResponse
\* (fluorescence_service.py:379-391).
JobStatusResponse(job) ==
    [jobId |-> job.jobId, projectId |-> job.projectId,
     status |-> job.status, progress |-> job.progress,
     message |-> job.message, error |-> job.error,
     createdAt |-> job.createdAt, updatedAt |-> job.updatedAt]

\* list_project_jobs (fluorescence_service.py:352-391) over
\* JobRegistry.list_jobs (job_registry.py:110-114).
list_project_jobs_unsorted(reg, project_id, skip, limit) ==
    LET InProject(job) == job.projectId = project_id
        project_jobs == SelectSeq(reg, InProject)
        last == IF skip + limit < Len(project_jobs) THEN skip + limit
                ELSE Len(project_jobs)
        paginated_jobs == SubSeq(project_jobs, skip + 1, last)
    IN [i \in 1..Len(paginated_jobs) |-> JobStatusResponse(paginated_jobs[i])]
list_project_jobs(reg, project_id, skip, limit) ==
    LET InProject(job) == job.projectId = project_id
        project_jobs == SortDesc(SelectSeq(reg, InProject))
        last == IF skip + limit < Len(project_jobs) THEN skip + limit
                ELSE Len(project_jobs)
        paginated_jobs == SubSeq(project_jobs, skip + 1, last)
    IN [i \in 1..Len(paginated_jobs) |-> JobStatusResponse(paginated_jobs[i])]

\* GET /projects/{project_id}/jobs: skip >= 0 and limit >= 1
\* (routers/fluorescence.py:211-212).
Skips == 0..MaxListJobs
Limits == 1..MaxListJobs

list_call(project_id, skip, limit) ==
    /\ invoked = NoCall
    /\ invoked' = [fn |-> "list_project_jobs", project_id |-> project_id,
                   skip |-> skip, limit |-> limit]
    /\ ret' = Returned(list_project_jobs(registry, project_id, skip, limit))
    /\ UNCHANGED <<jobvars, registry, now, issued, files, sweep>>

\* The caller has the value of the call.
call_done ==
    /\ invoked # NoCall
    /\ invoked' = NoCall
    /\ ret' = Pending
    /\ UNCHANGED <<jobvars, registry, now, issued, files, sweep>>

\* cleanup_old_jobs (job_registry.py:144-168) runs in its own thread, one
\* loop iteration per step.  Line 151-154: the time is read and the
\* iterator over self._jobs.items() is created; it remembers the size of
\* the dict.
cleanup_begin(max_age_hours) ==
    /\ sweep = NoSweep
    /\ sweep' = [phase |-> "scan", current_time |-> now,
                 max_age_hours |-> max_age_hours, used |-> Len(registry),
                 pos |-> 0, to_delete |-> <<>>, count |-> 0,
                 deleted |-> <<>>,
                 due |-> {job.jobId : job \in
                            {registry[i] : i \in
                               {k \in 1..Len(registry) :
                                  /\ registry[k].status \in Terminal
                                  /\ now - registry[k].createdAt
                                        > max_age_hours}}}]
    /\ UNCHANGED <<jobvars, registry, now, issued, files, invoked, ret>>

\* Lines 154-163: the iterator is advanced; a dict whose size has changed
\* since the iterator was created makes it raise RuntimeError, which
\* nothing in cleanup_old_jobs catches.
cleanup_scan ==
    /\ sweep.phase = "scan"
    /\ IF Len(registry) # sweep.used
       THEN sweep' = [sweep EXCEPT !.phase = "raised"]
       ELSE IF sweep.pos < sweep.used
       THEN LET job == registry[sweep.pos + 1]
                age_hours == sweep.current_time - job.createdAt
            IN sweep' = [sweep EXCEPT
                   !.pos = @ + 1,
                   !.to_delete =
                       IF job.status \in Terminal
                          /\ age_hours > sweep.max_age_hours
                       THEN Append(@, job.jobId) ELSE @]
       ELSE sweep' = [sweep EXCEPT !.phase = "delete",
                                   !.count = Len(sweep.to_delete)]
    /\ UNCHANGED <<jobvars, registry, now, issued, files, invoked, ret>>

\* delete_job (job_registry.py:116-123)
delete_job(reg, job_id) ==
    LET Other(job) == job.jobId # job_id IN SelectSeq(reg, Other)

\* Lines 165-168: delete_job for each collected id, then
\* len(to_delete), kept in `count`, is returned.  `deleted` keeps the
\* dicts as they were when removed, `due` the ids of the jobs that were
\* terminal and older than max_age_hours when the call began.
cleanup_delete ==
    /\ sweep.phase = "delete"
    /\ IF sweep.to_delete # <<>>
       THEN LET job_id == Head(sweep.to_delete)
                i == RegIndex(registry, job_id)
            IN /\ registry' = delete_job(registry, job_id)
               /\ sweep' = [sweep EXCEPT
                      !.to_delete = Tail(@),
                      !.deleted = IF i = 0 THEN @
                                  ELSE Append(@, registry[i])]
       ELSE /\ registry' = registry
            /\ sweep' = [sweep EXCEPT !.phase = "returned"]
    /\ UNCHANGED <<jobvars, now, issued, files, invoked, ret>>

\* The caller of cleanup_old_jobs has its count or its exception.
cleanup_done ==
    /\ sweep.phase \in {"returned", "raised"}
    /\ sweep' = NoSweep
    /\ UNCHANGED <<jobvars, registry, now, issued, files, invoked, ret>>

\* ------------------------------------------------ load_fluorescence_data
MaxChannels == 2
MaxColumns == 4
MaxSamples == 3

\* A column name of the CSV header, in the parts the channel pattern
\* looks at: leading white space, letters, digits, the text after "-",
\* and what follows.  "CH1-410" is Col("CH", <<1>>, "410").
Col(prefix, digits, wl) ==
    [lead |-> "", prefix |-> prefix, digits |-> digits, wl |-> wl,
     tail |-> ""]
NoColumn == Col("", <<>>, "")

ColumnNames ==
    {Col("CH", <<n>>, wl) : n \in 1..MaxChannels, wl \in {"410", "470"}}
    \cup {Col("ch", <<1>>, "470"),
          [Col("CH", <<1>>, "410") EXCEPT !.lead = " "],
          Col("CH", <<0, 1>>, "410"),
          Col("CH", <<1>>, "415"),
          [Col("CH", <<1>>, "410") EXCEPT !.tail = ".1"],
          Col("Time", <<>>, ""),
          Col("CH", <<>>, "410")}

\* str.strip()
strip(col) == [col EXCEPT !.lead = ""]
\* re.IGNORECASE on the letters of the pattern.
casefold(letters) == IF letters \in {"CH", "ch", "Ch", "cH"} THEN "ch"
                     ELSE letters

\* channel_pattern = ^CH(\d+)-(410|470)$ (fluorescence_algo.py:104),
\* applied to col.strip() (line 108).
channel_pattern_match(col) ==
    LET name == strip(col)
    IN /\ name.lead = ""
       /\ casefold(name.prefix) = "ch"
       /\ name.digits # <<>>
       /\ name.wl \in {"410", "470"}
       /\ name.tail = ""

\* Lines 106-114: channel_cols, a dict in insertion order: for each
\* channel number (the digit string) the column of each wavelength.
AddColumn(channel_cols, col) ==
    IF ~channel_pattern_match(col) THEN channel_cols
    ELSE LET ch_num == col.digits
             known == {k \in 1..Len(channel_cols) :
                          channel_cols[k].ch_num = ch_num}
         IN IF known = {}
            THEN Append(channel_cols,
                        [[ch_num |-> ch_num, w410 |-> NoColumn,
                          w470 |-> NoColumn]
                            EXCEPT ![IF col.wl = "410" THEN "w410"
                                     ELSE "w470"] = col])
            ELSE [channel_cols EXCEPT
                     ![CHOOSE k \in known : TRUE]
                         [IF col.wl = "410" THEN "w410" ELSE "w470"] = col]
RECURSIVE ChannelCols(_)
ChannelCols(columns) ==
    IF columns = <<>> THEN <<>>
    ELSE AddColumn(ChannelCols(SubSeq(columns, 1, Len(columns) - 1)),
                   columns[Len(columns)])

\* df[col].values: the sample of a column at each row.
Sample(col, row) == [column |-> col, row |-> row]

\* int(x) for x = num / den: truncation toward zero.
int_trunc(num, den) ==
    IF num >= 0 THEN num \div den ELSE -((-num) \div den)

\* Mask times are given in half seconds: start * fps is start * fps / 2.
\* Lines 128-132: range(start_idx, min(end_idx, len(data_410))) of each
\* mask.
MaskIndices(masks, fps, len) ==
    UNION {LET start_idx == int_trunc(masks[m].start * fps, 2)
               end_idx == int_trunc(masks[m].end * fps, 2)
           IN start_idx..((IF end_idx < len THEN end_idx ELSE len) - 1)
           : m \in 1..Len(masks)}

\* Lines 135-139: keep_mask[mask_indices] = False and data[keep_mask].
\* A negative index counts from the end of the array; one below -len
\* raises IndexError.
RECURSIVE Kept(_, _, _)
Kept(col, rows, removed) ==
    IF rows = 0 THEN <<>>
    ELSE LET before == Kept(col, rows - 1, removed)
         IN IF (rows - 1) \in removed THEN before
            ELSE Append(before, Sample(col, rows - 1))
Wrap(indices, len) == {IF i < 0 THEN i + len ELSE i : i \in indices}

ValueError(text) == [type |-> "ValueError", text |-> text]

\* Line 119: '410' not in wavelengths or '470' not in wavelengths.
MissingPair_both(c) == c.w410 = NoColumn /\ c.w470 = NoColumn
MissingPair(c) == c.w410 = NoColumn \/ c.w470 = NoColumn

\* Lines 116-153: the channels in the order of channel_cols; the first
\* channel number without both columns raises.
RECURSIVE LoadChannels(_, _, _, _, _)
LoadChannels(cols, channels, rows, fps, masks) ==
    IF cols = <<>>
    THEN IF channels = <<>>
         THEN Raised(ValueError("No valid channel pairs found in CSV file"))
         ELSE Returned(channels)
    ELSE LET c == Head(cols)
             indices == MaskIndices(masks, fps, rows)
             removed == Wrap(indices, rows)
         IN IF MissingPair(c)
            THEN Raised(ValueError("Channel is missing 410 or 470 wavelength data"))
            ELSE IF \E i \in indices : i < -rows
            THEN Raised([type |-> "IndexError", text |-> "out of bounds"])
            ELSE LoadChannels(Tail(cols),
                    Append(channels,
                           [name |-> <<"CH", c.ch_num>>,
                            baseline_410 |-> Kept(c.w410, rows, removed),
                            signal_470 |-> Kept(c.w470, rows, removed)]),
                    rows, fps, masks)

\* load_fluorescence_data (fluorescence_algo.py:75-153) on a readable
\* CSV file with numeric columns: `columns` is its header, `rows` its
\* number of data rows; masks None or [] is <<>>.
load_fluorescence_data(columns, rows, fps, masks) ==
    LoadChannels(ChannelCols(columns), <<>>, rows, fps, masks)

\* Headers: column names without repetition (read_csv renames a repeated
\* name by a ".1" suffix).
Headers ==
    {h \in UNION {[1..n -> ColumnNames] : n \in 0..MaxColumns} :
        \A i, j \in DOMAIN h : i # j => h[i] # h[j]}

\* Mask ranges (MaskRange, schemas/fluorescence.py:17-20: two floats
\* without further constraint), in half seconds.
MaskTimes == -2..(MaxSamples + 2)
MaskRanges == [start : MaskTimes, end : MaskTimes]
MaskLists == {<<>>} \cup {<<m>> : m \in MaskRanges}
                 \cup {<<m, n>> : m, n \in MaskRanges}
FrameRates == {1, 2}

ColumnCalls ==
    [fn : {"load_fluorescence_data"}, columns : Headers, rows : {1},
     fps : {1}, masks : {<<>>}]
MaskCalls ==
    [fn : {"load_fluorescence_data"},
     columns : {<<Col("CH", <<1>>, "410"), Col("CH", <<1>>, "470")>>},
     rows : 0..MaxSamples, fps : FrameRates, masks : MaskLists]

load_call ==
    /\ invoked.fn = "load_fluorescence_data"
    /\ ret = Pending
    /\ ret' = load_fluorescence_data(invoked.columns, invoked.rows,
                                     invoked.fps, invoked.masks)
    /\ UNCHANGED <<jobvars, registry, now, issued, files, sweep, invoked>>

\* ---------------------------------------------------- time_warp_alignment
MaxEvents == 5

\* LabelEvent: label and start_time, in seconds.
Labels == {"A", "B", "C"}
StartTimes == {0, 1}
LabelEvents == [label : Labels, start_time : StartTimes]
EventLists == UNION {[1..n -> LabelEvents] : n \in 0..MaxEvents}

\* sorted(dataset.events, key=lambda e: e.start_time): ascending and
\* stable (fluorescence_algo.py:570).
RECURSIVE InsertByStart(_, _)
InsertByStart(sorted, event) ==
    IF sorted = <<>> THEN <<event>>
    ELSE IF Head(sorted).start_time <= event.start_time
    THEN <<Head(sorted)>> \o InsertByStart(Tail(sorted), event)
    ELSE <<event>> \o sorted
RECURSIVE SortByStart(_)
SortByStart(events) ==
    IF events = <<>> THEN <<>>
    ELSE InsertByStart(SortByStart(SubSeq(events, 1, Len(events) - 1)),
                       events[Len(events)])

\* len(current_sequence) >= 2 (fluorescence_algo.py:574, 578)
KeepRun_any(current_sequence) == Len(current_sequence) >= 1
KeepRun(current_sequence) == Len(current_sequence) >= 2

\* The loop of lines 569-576 over the sorted events: the sequences
\* collected so far and the sequence being built.
RECURSIVE ScanEvents(_, _, _, _)
ScanEvents(events, event_labels, event_sequences, current_sequence) ==
    IF events = <<>>
    THEN [event_sequences |-> event_sequences,
          current_sequence |-> current_sequence]
    ELSE IF Head(events).label \in event_labels
    THEN ScanEvents(Tail(events), event_labels, event_sequences,
                    Append(current_sequence, Head(events)))
    ELSE ScanEvents(Tail(events), event_labels,
                    IF KeepRun(current_sequence)
                    THEN Append(event_sequences, current_sequence)
                    ELSE event_sequences,
                    <<>>)

\* event_sequences of time_warp_alignment for one dataset and one group
\* (fluorescence_algo.py:565-579).
event_sequences(events, event_labels) ==
    LET scan == ScanEvents(SortByStart(events), event_labels, <<>>, <<>>)
    IN IF KeepRun(scan.current_sequence)
       THEN Append(scan.event_sequences, scan.current_sequence)
       ELSE scan.event_sequences

\* EventGroup.events of the groups tried (schemas/fluorescence.py:29-32).
GroupEvents == {{"A", "B"}, {"A"}}
SequenceCalls ==
    [fn : {"event_sequences"}, events : EventLists,
     event_labels : GroupEvents]

sequences_call ==
    /\ invoked.fn = "event_sequences"
    /\ ret = Pending
    /\ ret' = Returned(event_sequences(invoked.events, invoked.event_labels))
    /\ UNCHANGED <<jobvars, registry, now, issued, files, sweep, invoked>>

\* -------------------------------------------------- analysis result shapes
MaxTrialEvents == 6
MaxTrials == 3

\* Arrays are modelled by their shapes: a vector is its length, a matrix
\* the sequence of its rows' lengths.  A dataset has one channel of
\* len_signal samples, named CH1.
TrialLabels == {"A", "C"}
TrialTimes == {0, 1, 2}
TrialEvents == [label : TrialLabels, start_time : TrialTimes]
\* dataset.events, listed in start-time order.
TrialLists ==
    UNION {{e \in [1..n -> TrialEvents] :
               \A i \in 1..(n - 1) : e[i].start_time <= e[i + 1].start_time}
           : n \in 0..MaxTrialEvents}
SignalLengths == {9, 10, 24}
AnalysisRates == {1, 2, 12}
\* (start, end) in seconds relative to the event.
BaselineWindows == {<<-1, 0>>, <<0, 1>>}
ResponseWindows == {<<0, 1>>, <<0, 2>>}

py_max(a, b) == IF a >= b THEN a ELSE b
py_min(a, b) == IF a <= b THEN a ELSE b

\* np.vstack: rows of unequal length raise ValueError.
np_vstack(rows) ==
    IF \A i \in 1..Len(rows) : rows[i] = rows[1]
    THEN Returned(rows)
    ELSE Raised(ValueError("all the input array dimensions must match"))

\* calculate_df_f_zscore (fluorescence_algo.py:224-300): df_f is
\* F_full[window_start_idx:window_end_idx] and time_axis is
\* np.arange(len(F_window)) / fps + window_start.
calculate_df_f_zscore(len_signal, fps, baseline_start, baseline_end, event_time, window_start, window_end) ==
    LET event_idx == int_trunc(event_time * fps, 1)
        baseline_start_idx ==
            py_max(0, event_idx + int_trunc(baseline_start * fps, 1))
        baseline_end_idx ==
            py_min(len_signal, event_idx + int_trunc(baseline_end * fps, 1))
        window_start_idx ==
            py_max(0, event_idx + int_trunc(window_start * fps, 1))
        window_end_idx ==
            py_min(len_signal, event_idx + int_trunc(window_end * fps, 1))
    IN IF \/ baseline_start_idx >= baseline_end_idx
          \/ window_start_idx >= window_end_idx
       THEN Raised(ValueError("Invalid time window indices"))
       ELSE Returned([df_f |-> window_end_idx - window_start_idx,
                      time_axis |-> window_end_idx - window_start_idx])

\* time_axis before the first trial succeeds (time_axis = None).
NoAxis == -1
\* f"trial_{i}_{event.label}"
trial_id(i, label) == <<"trial", i, label>>

\* The loop of calculate_df_f (lines 353-376) from event i on: an event
\* whose extraction raises is skipped.
RECURSIVE ZscoreTrials(_, _, _, _, _, _, _)
ZscoreTrials(filtered_events, i, len_signal, baseline_window, window, fps, acc) ==
    IF i >= Len(filtered_events) THEN acc
    ELSE LET event == filtered_events[i + 1]
             trial == calculate_df_f_zscore(len_signal, fps,
                          baseline_window[1], baseline_window[2],
                          event.start_time, window[1], window[2])
         IN ZscoreTrials(filtered_events, i + 1, len_signal,
                baseline_window, window, fps,
                IF trial.kind = "raised" THEN acc
                ELSE [df_f_list |-> Append(acc.df_f_list, trial.value.df_f),
                      time_axis |-> IF acc.time_axis = NoAxis
                                    THEN trial.value.time_axis
                                    ELSE acc.time_axis,
                      trial_ids |-> Append(acc.trial_ids,
                                           trial_id(i, event.label))])

\* calculate_df_f (fluorescence_algo.py:303-388)
calculate_df_f(len_signal, events, baseline_window, response_window, fps, event_filter) ==
    LET Matches(e) == event_filter = {} \/ e.label \in event_filter
        filtered_events == SelectSeq(events, Matches)
        window == <<py_min(baseline_window[1], response_window[1]),
                    py_max(baseline_window[2], response_window[2])>>
        acc == ZscoreTrials(filtered_events, 0, len_signal, baseline_window,
                            window, fps,
                            [df_f_list |-> <<>>, time_axis |-> NoAxis,
                             trial_ids |-> <<>>])
        df_f_matrix == np_vstack(acc.df_f_list)
    IN IF filtered_events = <<>>
       THEN Returned([df_f |-> <<>>, time_axis |-> 0, trial_ids |-> <<>>])
       ELSE IF acc.df_f_list = <<>>
       THEN Raised(ValueError("No valid trials could be processed"))
       ELSE IF df_f_matrix.kind = "raised" THEN df_f_matrix
       ELSE Returned([df_f |-> df_f_matrix.value,
                      time_axis |-> acc.time_axis,
                      trial_ids |-> acc.trial_ids])

\* np.mean(df_f, axis=0) and np.std(df_f, axis=0): one value per column
\* of the matrix.
np_mean_axis1(df_f) == Len(df_f)
np_mean_axis0(df_f) == df_f[1]
np_std_axis0(df_f) == df_f[1]

\* The matrix and curve entries both analyses append (lines 600-617 and
\* 681-698); np.zeros_like(mean_curve) has the length of mean_curve.
matrix_entry(key, result) ==
    [key |-> key, heatmap |-> result.df_f, xAxis |-> result.time_axis,
     trialIds |-> result.trial_ids]
curve_entry(key, result) ==
    LET mean_curve == np_mean_axis0(result.df_f)
        sem_curve == IF Len(result.df_f) > 1 THEN np_std_axis0(result.df_f)
                     ELSE mean_curve
    IN [key |-> key, mean |-> mean_curve, sem |-> sem_curve,
        xAxis |-> result.time_axis]

\* analyze_single_event (fluorescence_algo.py:630-704), the loop over
\* params.events: an error of calculate_df_f leaves the function.
RECURSIVE SingleEvents(_, _, _, _)
SingleEvents(event_labels, params, matrices, curves) ==
    IF event_labels = <<>>
    THEN Returned([matrices |-> matrices, curves |-> curves])
    ELSE LET event_label == Head(event_labels)
             result == calculate_df_f(params.len_signal, params.events,
                           params.baseline_window, params.response_window,
                           params.fps, {event_label})
             key == <<"CH1", event_label>>
         IN IF result.kind = "raised" THEN result
            ELSE IF Len(result.value.df_f) = 0
            THEN SingleEvents(Tail(event_labels), params, matrices, curves)
            ELSE SingleEvents(Tail(event_labels), params,
                     Append(matrices, matrix_entry(key, result.value)),
                     Append(curves, curve_entry(key, result.value)))
analyze_single_event(params) ==
    SingleEvents(params.event_labels, params, <<>>, <<>>)

\* target_segment_length=100 (fluorescence_algo.py:592)
target_segment_length == 100

\* time_warp_signal (fluorescence_algo.py:401-445): the length of the
\* warped signal for event sample indices events.
time_warp_signal(len_signal, events, target_length) ==
    LET warped_segments ==
            {i \in 1..(Len(events) - 1) :
                /\ ~(events[i] >= events[i + 1] \/ events[i + 1] > len_signal)
                /\ events[i + 1] - events[i] > 1}
    IN IF Len(events) < 2 THEN len_signal
       ELSE IF warped_segments = {}
       THEN IF len_signal >= target_length THEN target_length
            ELSE len_signal + (target_length - len_signal)
       ELSE Cardinality(warped_segments) * target_length

\* The loop of calculate_df_f_warping (lines 487-509) from group
\* group_idx on.
RECURSIVE WarpTrials(_, _, _, _, _, _)
WarpTrials(event_groups, group_idx, len_signal, fps, target_length, acc) ==
    IF group_idx >= Len(event_groups) THEN acc
    ELSE LET event_group == event_groups[group_idx + 1]
             event_times ==
                 [k \in 1..Len(event_group) |->
                     int_trunc(event_group[k].start_time * fps, 1)]
             warped_signal ==
                 time_warp_signal(len_signal, event_times, target_length)
         IN WarpTrials(event_groups, group_idx + 1, len_signal, fps,
                target_length,
                IF Len(event_group) < 2 THEN acc
                ELSE [df_f_list |-> Append(acc.df_f_list, warped_signal),
                      trial_ids |-> Append(acc.trial_ids,
                                           <<"trial", group_idx>>)])

RECURSIVE MaxOf(_)
MaxOf(lengths) ==
    IF Len(lengths) = 1 THEN lengths[1]
    ELSE py_max(Head(lengths), MaxOf(Tail(lengths)))

\* Lines 514-521: a shorter trial is padded to max_len, a longer one cut.
pad_trial(trial, max_len) ==
    IF trial < max_len THEN trial + (max_len - trial)
    ELSE py_min(trial, max_len)

\* calculate_df_f_warping (fluorescence_algo.py:448-532): np.polyfit
\* raises TypeError on the empty baseline of a signal shorter than 10.
calculate_df_f_warping(len_signal, event_groups, fps, target_length) ==
    LET baseline_len == len_signal \div 10
        acc == WarpTrials(event_groups, 0, len_signal, fps, target_length,
                          [df_f_list |-> <<>>, trial_ids |-> <<>>])
        max_len == MaxOf(acc.df_f_list)
        df_f_padded == [n \in 1..Len(acc.df_f_list) |->
                           pad_trial(acc.df_f_list[n], max_len)]
        df_f_matrix == np_vstack(df_f_padded)
    IN IF baseline_len = 0
       THEN Raised([type |-> "TypeError",
                    text |-> "expected non-empty vector for x"])
       ELSE IF acc.df_f_list = <<>>
       THEN Raised(ValueError("No valid trial groups could be processed"))
       ELSE IF df_f_matrix.kind = "raised" THEN df_f_matrix
       ELSE Returned([df_f |-> df_f_matrix.value, time_axis |-> max_len,
                      trial_ids |-> acc.trial_ids])

\* time_warp_alignment (fluorescence_algo.py:535-627), the loop over
\* groups: a group without sequences, or whose warping raises, adds
\* nothing.
RECURSIVE WarpGroups(_, _, _, _)
WarpGroups(groups, params, matrices, curves) ==
    IF groups = <<>>
    THEN Returned([matrices |-> matrices, curves |-> curves])
    ELSE LET group == Head(groups)
             sequences == event_sequences(params.events, group.events)
             result == calculate_df_f_warping(params.len_signal, sequences,
                           params.fps, target_segment_length)
             key == <<"CH1", group.groupName>>
         IN IF sequences = <<>> \/ result.kind = "raised"
            THEN WarpGroups(Tail(groups), params, matrices, curves)
            ELSE WarpGroups(Tail(groups), params,
                     Append(matrices, matrix_entry(key, result.value)),
                     IF Len(result.value.df_f) > 0
                     THEN Append(curves, curve_entry(key, result.value))
                     ELSE curves)
time_warp_alignment(params) ==
    WarpGroups(params.groups, params, <<>>, <<>>)

\* params.events and params.groups of the calls tried.
EventLabelLists == {<<"A">>, <<"A", "C">>}
GroupLists ==
    {<<[groupName |-> "g1", events |-> {"A"}]>>,
     <<[groupName |-> "g1", events |-> {"A"}],
       [groupName |-> "g2", events |-> {"A", "C"}]>>}
SingleCalls ==
    [fn : {"analyze_single_event"},
     events : {e \in TrialLists : Len(e) <= MaxTrials},
     len_signal : SignalLengths, fps : AnalysisRates,
     baseline_window : BaselineWindows, response_window : ResponseWindows,
     event_labels : EventLabelLists]
MultiCalls ==
    [fn : {"time_warp_alignment"}, events : TrialLists,
     len_signal : SignalLengths, fps : AnalysisRates, groups : GroupLists]

single_call ==
    /\ invoked.fn = "analyze_single_event"
    /\ ret = Pending
    /\ ret' = analyze_single_event(invoked)
    /\ UNCHANGED <<jobvars, registry, now, issued, files, sweep, invoked>>

multi_call ==
    /\ invoked.fn = "time_warp_alignment"
    /\ ret = Pending
    /\ ret' = time_warp_alignment(invoked)
    /\ UNCHANGED <<jobvars, registry, now, issued, files, sweep, invoked>>

\* ------------------------------------------------- analysis of a batch
MaxDatasets == 2

\* A Dataset of the batch: its events and the length of its one channel,
\* named CH1 in every recording.
BatchDatasets ==
    [events : {e \in TrialLists : Len(e) <= 1}, len_signal : SignalLengths]
DatasetLists == UNION {[1..n -> BatchDatasets] : n \in 1..MaxDatasets}

\* analyze_single_event, the loop over datasets (fluorescence_algo.py:
\* 654-698): matrices and curves are appended dataset after dataset.
RECURSIVE SingleDatasets(_, _, _, _)
SingleDatasets(datasets, params, matrices, curves) ==
    IF datasets = <<>>
    THEN Returned([matrices |-> matrices, curves |-> curves])
    ELSE LET result == SingleEvents(params.event_labels,
                           Head(datasets) @@ params, matrices, curves)
         IN IF result.kind = "raised" THEN result
            ELSE SingleDatasets(Tail(datasets), params,
                                result.value.matrices, result.value.curves)

\* time_warp_alignment, the loop over datasets inside the loop over
\* groups (fluorescence_algo.py:556-621).
RECURSIVE GroupDatasets(_, _, _, _, _)
GroupDatasets(group, datasets, params, matrices, curves) ==
    IF datasets = <<>>
    THEN [matrices |-> matrices, curves |-> curves]
    ELSE LET result == WarpGroups(<<group>>, Head(datasets) @@ params,
                                  matrices, curves)
         IN GroupDatasets(group, Tail(datasets), params,
                          result.value.matrices, result.value.curves)
RECURSIVE MultiDatasets(_, _, _, _, _)
MultiDatasets(groups, datasets, params, matrices, curves) ==
    IF groups = <<>>
    THEN Returned([matrices |-> matrices, curves |-> curves])
    ELSE LET result == GroupDatasets(Head(groups), datasets, params,
                                     matrices, curves)
         IN MultiDatasets(Tail(groups), datasets, params,
                          result.matrices, result.curves)

\* execute_analysis, fluorescence_service.py:275-278: the analysis of the
\* request's mode over the datasets built.
analyze(datasets, params) ==
    IF params.mode = "single"
    THEN SingleDatasets(datasets, params, <<>>, <<>>)
    ELSE MultiDatasets(params.groups, datasets, params, <<>>, <<>>)

BatchCalls ==
    [fn : {"analyze"}, mode : {"single"}, datasets : DatasetLists,
     fps : AnalysisRates, baseline_window : BaselineWindows,
     response_window : ResponseWindows, event_labels : EventLabelLists]
    \cup [fn : {"analyze"}, mode : {"multi"}, datasets : DatasetLists,
          fps : AnalysisRates, groups : GroupLists]

batch_call ==
    /\ invoked.fn = "analyze"
    /\ ret = Pending
    /\ ret' = analyze(invoked.datasets, invoked)
    /\ UNCHANGED <<jobvars, registry, now, issued, files, sweep, invoked>>

\* --------------------------------------------------------- build_datasets
MaxFiles == 4
MaxPairFiles == 2

\* Strings that are searched or compared by prefix are sequences of
\* characters.
Uppercase == <<"A", "B", "C", "D", "E", "F", "G", "H", "I", "J", "K", "L", "M", "N", "O", "P", "Q", "R", "S", "T", "U", "V", "W", "X", "Y", "Z">>
Lowercase == <<"a", "b", "c", "d", "e", "f", "g", "h", "i", "j", "k", "l", "m", "n", "o", "p", "q", "r", "s", "t", "u", "v", "w", "x", "y", "z">>
Digits == <<"0", "1", "2", "3", "4", "5", "6", "7", "8", "9">>

\* str.lower()
lower(text) ==
    [i \in 1..Len(text) |->
        IF \E u \in 1..Len(Uppercase) : Uppercase[u] = text[i]
        THEN Lowercase[CHOOSE u \in 1..Len(Uppercase) : Uppercase[u] = text[i]]
        ELSE text[i]]
\* word in text
contains(text, word) ==
    \E i \in 1..(Len(text) - Len(word) + 1) :
        SubSeq(text, i, i + Len(word) - 1) = word
\* str.startswith(prefix)
startswith(text, prefix) ==
    Len(prefix) <= Len(text) /\ SubSeq(text, 1, Len(prefix)) = prefix
\* str(n) of a non-negative int
RECURSIVE str(_)
str(n) ==
    IF n < 10 THEN <<Digits[n + 1]>>
    ELSE str(n \div 10) \o <<Digits[(n % 10) + 1]>>

\* 'top' in filename or 'label' in filename or 'behavior' in filename
\* (fluorescence_service.py:154 and 175), filename in lower case.
has_keyword(filename) ==
    \/ contains(filename, <<"t", "o", "p">>)
    \/ contains(filename, <<"l", "a", "b", "e", "l">>)
    \/ contains(filename, <<"b", "e", "h", "a", "v", "i", "o", "r">>)

\* is_fluorescence_file (fluorescence_service.py:143-157); filePath is
\* held as its directory (parent) and its file name (name).
is_fluorescence_file(item) ==
    IF item.dataType = "fluorescence" THEN TRUE
    ELSE ~has_keyword(lower(item.filePath.name))

\* find_label_files (fluorescence_service.py:160-178)
find_label_files(fluor_item, all_items) ==
    LET IsLabel(item) ==
            /\ item.dataItemId # fluor_item.dataItemId
            /\ item.filePath.parent = fluor_item.filePath.parent
            /\ has_keyword(lower(item.filePath.name))
    IN SelectSeq(all_items, IsLabel)

\* What the two parsers make of a file.  A file with channel columns
\* loads as a recording, with the masks handed over, and fails to load
\* as annotations; a file with behaviour and start columns loads as
\* annotations (here one event A at dataItemId seconds) and fails to
\* load as a recording.
load_recording(item, masks) ==
    IF item.content = "recording" THEN Returned([masks |-> masks])
    ELSE Raised(ValueError("No fluorescence channels found"))
load_annotations(item) ==
    IF item.content = "annotation"
    THEN Returned(<<[label |-> "A", start_time |-> item.dataItemId]>>)
    ELSE Raised(ValueError("Behavior column not found in CSV"))

\* Lines 101-104: the ranges of every entry of request.masks whose key
\* starts with str(dataItemId), in the order of the dict.
RECURSIVE extract_masks(_, _)
extract_masks(mask_items, dataItemId) ==
    IF mask_items = <<>> THEN <<>>
    ELSE (IF startswith(Head(mask_items).key, str(dataItemId))
          THEN Head(mask_items).ranges ELSE <<>>)
         \o extract_masks(Tail(mask_items), dataItemId)

\* list.extend over the lists of a list.
RECURSIVE Concat(_)
Concat(lists) ==
    IF lists = <<>> THEN <<>> ELSE Head(lists) \o Concat(Tail(lists))

\* Lines 113-125: the events of the label files in order; a file that
\* fails to load is passed over.
load_events_all_or_none(label_items) ==
    IF \E k \in 1..Len(label_items) :
           load_annotations(label_items[k]).kind = "raised"
    THEN <<>>
    ELSE Concat([k \in 1..Len(label_items) |->
                    load_annotations(label_items[k]).value])
load_events(label_items) ==
    Concat([k \in 1..Len(label_items) |->
               IF load_annotations(label_items[k]).kind = "raised"
               THEN <<>>
               ELSE load_annotations(label_items[k]).value])

\* The loop of build_datasets over fluorescence_items (lines 91-138).
RECURSIVE BuildLoop(_, _, _)
BuildLoop(fluorescence_items, data_items, request) ==
    IF fluorescence_items = <<>> THEN <<>>
    ELSE LET fluor_item == Head(fluorescence_items)
             label_items == find_label_files(fluor_item, data_items)
             masks == extract_masks(request.masks, fluor_item.dataItemId)
             channels == load_recording(fluor_item, masks)
             dataset == [data_item_id |-> fluor_item.dataItemId,
                         label_files |->
                             [k \in 1..Len(label_items) |->
                                 label_items[k].dataItemId],
                         channels |-> channels.value,
                         events |-> load_events(label_items)]
         IN (IF channels.kind = "raised" THEN <<>> ELSE <<dataset>>)
            \o BuildLoop(Tail(fluorescence_items), data_items, request)

\* build_datasets (fluorescence_service.py:66-140)
build_datasets(data_items, request) ==
    Returned(BuildLoop(SelectSeq(data_items, is_fluorescence_file),
                       data_items, request))

\* The files tried, by directory, name, dataType and content; file k of
\* a batch is the data item with the id FileId(k).
FileId(k) == IF k = 2 THEN 12 ELSE IF k = 1 THEN 1 ELSE k - 1
FileNames == {<<"r", "e", "c">>, <<"S", "t", "o", "p">>}
FileLists(max_files, dataTypes) ==
    UNION {[1..n -> [filePath : [parent : {"d1", "d2"}, name : FileNames],
                     dataType : dataTypes,
                     content : {"recording", "annotation"}]]
           : n \in 1..max_files}
DataItems(batch) ==
    [k \in 1..Len(batch) |->
        [dataItemId |-> FileId(k), filePath |-> batch[k].filePath,
         dataType |-> batch[k].dataType, content |-> batch[k].content]]
MaskRange1 == <<[start |-> 0, end |-> 1]>>
MaskDicts ==
    {<<>>,
     <<[key |-> str(12), ranges |-> MaskRange1]>>,
     <<[key |-> str(1) \o <<":", "C">>, ranges |-> MaskRange1]>>,
     <<[key |-> str(1), ranges |-> MaskRange1],
       [key |-> str(12) \o <<":", "C">>, ranges |-> MaskRange1]>>}
\* Batches of files whose dataType is not set, without masks.
BuildCalls ==
    [fn : {"build_datasets"}, batch : FileLists(MaxFiles, {None}),
     request : [masks : {<<>>}]]
\* Small batches of files of any dataType, without masks.
ClassifyCalls ==
    [fn : {"build_datasets"},
     batch : FileLists(MaxPairFiles, {"fluorescence", None}),
     request : [masks : {<<>>}]]
\* Small batches of recordings, with masks.
MaskKeyCalls ==
    [fn : {"build_datasets"},
     batch : {batch \in FileLists(MaxPairFiles, {None}) :
                 \A k \in 1..Len(batch) : batch[k].content = "recording"},
     request : [masks : MaskDicts]]

build_call ==
    /\ invoked.fn = "build_datasets"
    /\ ret = Pending
    /\ ret' = build_datasets(DataItems(invoked.batch), invoked.request)
    /\ UNCHANGED <<jobvars, registry, now, issued, files, sweep, invoked>>

\* ------------------------------------------------------- specifications
\* No job has been submitted.
InitJobs ==
    /\ jobs = [j \in JobIds |-> NoJob]
    /\ pc = [j \in JobIds |-> "none"]
    /\ wr = [j \in JobIds |-> <<>>]
    /\ caught = [j \in JobIds |-> NoExc]
    /\ outcomes = [j \in JobIds |-> <<>>]
    /\ resultFile = [j \in JobIds |-> FALSE]
    /\ snaps = [j \in JobIds |-> {}]
    /\ client = Idle

\* JobRegistry.__new__ (job_registry.py:28-32): an empty registry.
InitRegistry ==
    /\ registry = <<>>
    /\ now = 0
    /\ issued = 0
    /\ files = <<>>
    /\ sweep = NoSweep

Init ==
    /\ InitJobs
    /\ InitRegistry
    /\ invoked = NoCall
    /\ ret = Pending

\* Requests submitted while jobs execute: one valid request per mode and
\* one the router rejects.
SampleRequests ==
    {[mode |-> "single", events |-> "nonempty", baselineWindow |-> "present",
      responseWindow |-> "present", groups |-> "missing",
      dataItemIds |-> "nonempty", tagFilter |-> "missing",
      behavior |-> "col", start |-> "col"],
     [mode |-> "multi", events |-> "missing", baselineWindow |-> "missing",
      responseWindow |-> "missing", groups |-> "nonempty",
      dataItemIds |-> "missing", tagFilter |-> "tags",
      behavior |-> "col", start |-> "col"],
     [mode |-> "single", events |-> "empty", baselineWindow |-> "present",
      responseWindow |-> "present", groups |-> "missing",
      dataItemIds |-> "nonempty", tagFilter |-> "missing",
      behavior |-> "col", start |-> "col"]}

\* Jobs are submitted to one project while queries name either project,
\* so a query meets jobs of its own and of another project.
SubmitProjects == {"P1"}

Submit == client = Idle /\ \E project \in SubmitProjects, req \in SampleRequests :
              submit_analysis(project, req)
Write1 == \E j \in JobIds : WriteField(j)
Exec == \E j \in JobIds : ExecStep(j)
StatusQuery == \E project \in Projects, j \in JobIds : StatusBegin(project, j)
StatusReads == \E project \in Projects : StatusRead(project)
ResultsQuery == \E project \in Projects, j \in JobIds :
                    get_job_results(project, j)

Next ==
    \/ Submit
    \/ Exec
    \/ Write1
    \/ StatusQuery
    \/ StatusReads
    \/ ResultsQuery
    \/ ClientDone

Spec == Init /\ [][Next]_vars

\* The worker pool runs every scheduled task to its end.
JobsNext == Submit \/ Exec \/ Write1 \/ ClientDone
FairSpec ==
    Init /\ [][JobsNext]_vars
    /\ \A j \in JobIds : WF_vars(ExecStep(j)) /\ WF_vars(WriteField(j))

\* The submission endpoint alone, over every request body.
SubmitAny == client = Idle /\ \E project \in Projects, req \in Requests :
                 submit_analysis(project, req)
NextSubmit == SubmitAny \/ ClientDone
SpecSubmit == Init /\ [][NextSubmit]_vars

\* resolve_data_items on every table, project and selection.
InitResolve ==
    /\ InitJobs
    /\ InitRegistry
    /\ invoked \in ResolveCalls
    /\ ret = Pending
NextResolve == resolve_call
SpecResolve == InitResolve /\ [][NextResolve]_vars

\* A disk that takes every write, and one on which a write may fail.
DiskWritable == {TRUE}
DiskFaulty == {TRUE, FALSE}

\* create_job and update_job while snapshot writes may fail.
RegCreate ==
    /\ issued < MaxRegJobs
    /\ \E project_id \in SubmitProjects, writable \in DiskFaulty :
           reg_create(project_id, writable)
RegUpdate == \E job_id \in 1..MaxRegJobs, writable \in DiskFaulty :
                 reg_update(job_id, writable)
NextRegistry ==
    \/ RegCreate
    \/ RegUpdate
    \/ tick
    \/ call_done
SpecRegistry == Init /\ [][NextRegistry]_vars

\* Jobs of several projects are created over time and listed.
ListCreate ==
    /\ issued < MaxListJobs
    /\ \E project_id \in Projects, writable \in DiskWritable :
           reg_create(project_id, writable)
ListJobs == \E project_id \in Projects, skip \in Skips, limit \in Limits :
                list_call(project_id, skip, limit)
NextList ==
    \/ ListCreate
    \/ tick
    \/ ListJobs
    \/ call_done
SpecList == Init /\ [][NextList]_vars

\* cleanup_old_jobs runs in a maintenance thread while jobs are created
\* and updated.
SweepCreate ==
    /\ issued < MaxSweepJobs
    /\ \E project_id \in SubmitProjects, writable \in DiskWritable :
           reg_create(project_id, writable)
SweepUpdate == \E job_id \in 1..MaxSweepJobs, writable \in DiskWritable :
                   reg_update(job_id, writable)
CleanupBegin == \E max_age_hours \in MaxAges : cleanup_begin(max_age_hours)
NextCleanup ==
    \/ SweepCreate
    \/ SweepUpdate
    \/ tick
    \/ call_done
    \/ CleanupBegin
    \/ cleanup_scan
    \/ cleanup_delete
    \/ cleanup_done
SpecCleanup == Init /\ [][NextCleanup]_vars

\* load_fluorescence_data on every header.
InitColumns ==
    /\ InitJobs
    /\ InitRegistry
    /\ invoked \in ColumnCalls
    /\ ret = Pending
NextColumns == load_call
SpecColumns == InitColumns /\ [][NextColumns]_vars

\* load_fluorescence_data on one channel pair with every list of masks.
InitMasks ==
    /\ InitJobs
    /\ InitRegistry
    /\ invoked \in MaskCalls
    /\ ret = Pending
NextMasks == load_call
SpecMasks == InitMasks /\ [][NextMasks]_vars

\* The event sequences of every event list.
InitRuns ==
    /\ InitJobs
    /\ InitRegistry
    /\ invoked \in SequenceCalls
    /\ ret = Pending
NextRuns == sequences_call
SpecRuns == InitRuns /\ [][NextRuns]_vars

\* Both analyses over every dataset and parameter choice.
InitAnalyze ==
    /\ InitJobs
    /\ InitRegistry
    /\ invoked \in SingleCalls \cup MultiCalls
    /\ ret = Pending
NextAnalyze == single_call \/ multi_call
SpecAnalyze == InitAnalyze /\ [][NextAnalyze]_vars

\* The analysis of every batch of datasets.
InitBatch ==
    /\ InitJobs
    /\ InitRegistry
    /\ invoked \in BatchCalls
    /\ ret = Pending
NextBatch == batch_call
SpecBatch == InitBatch /\ [][NextBatch]_vars

\* select_by_tags on every table, project and tag filter dict.
InitTags ==
    /\ InitJobs
    /\ InitRegistry
    /\ invoked \in TagCalls
    /\ ret = Pending
NextTags == tags_call
SpecTags == InitTags /\ [][NextTags]_vars

\* build_datasets on batches of files.
InitBuild ==
    /\ InitJobs
    /\ InitRegistry
    /\ invoked \in BuildCalls
    /\ ret = Pending
NextBuild == build_call
SpecBuild == InitBuild /\ [][NextBuild]_vars
InitClassify ==
    /\ InitJobs
    /\ InitRegistry
    /\ invoked \in ClassifyCalls
    /\ ret = Pending
SpecClassify == InitClassify /\ [][NextBuild]_vars
InitMaskKeys ==
    /\ InitJobs
    /\ InitRegistry
    /\ invoked \in MaskKeyCalls
    /\ ret = Pending
SpecMaskKeys == InitMaskKeys /\ [][NextBuild]_vars

\* =============================================================== claims
Exists(j) == jobs[j] # NoJob
\* execute_analysis has returned for job j.
Finished(j) == pc[j] = "done" /\ wr[j] = <<>>
Range(seq) == {seq[i] : i \in 1..Len(seq)}
StatusesSeen(j) == {t[1] : t \in snaps[j]}

\* C1: the status of a job changes only along queued -> running ->
\* succeeded or queued -> running -> failed: a job enters the registry as
\* queued, never moves backward and never reaches a terminal status
\* without having been running.
AllowedTransitions ==
    {<<QUEUED, RUNNING>>, <<RUNNING, SUCCEEDED>>, <<RUNNING, FAILED>>}
C1_StatusPath ==
    [][\A j \in JobIds :
        /\ (~Exists(j) /\ jobs'[j] # NoJob) => jobs'[j].status = QUEUED
        /\ (Exists(j) /\ jobs'[j] # NoJob) =>
              \/ jobs'[j].status = jobs[j].status
              \/ <<jobs[j].status, jobs'[j].status>> \in AllowedTransitions
      ]_vars
C1_Witness ==
    \E j \in JobIds :
        /\ Finished(j)
        /\ jobs[j].status = FAILED
        /\ StatusesSeen(j) = {QUEUED, RUNNING, FAILED}

\* C2 (as stated): when execute_analysis fails after progress p was last
\* reported, the job ends failed with progress still p and error equal to
\* the exception text.
C2_ProgressPreserved ==
    \A j \in JobIds :
        (Finished(j) /\ caught[j] # NoExc) =>
            /\ jobs[j].status = FAILED
            /\ jobs[j].progress = caught[j].progress
            /\ jobs[j].error = caught[j].text
\* C2 (amended): when execute_analysis fails after progress p was last
\* reported, the job ends failed with progress reset to 0, message
\* "Analysis failed" and error equal to the exception text.
C2_ProgressReset ==
    \A j \in JobIds :
        (Finished(j) /\ caught[j] # NoExc) =>
            /\ jobs[j].status = FAILED
            /\ jobs[j].progress = 0
            /\ jobs[j].message = "Analysis failed"
            /\ jobs[j].error = caught[j].text
C2_Witness ==
    \E j \in JobIds :
        /\ Finished(j)
        /\ caught[j] = AnalysisError(50)
        /\ jobs[j].progress = 0

\* C3: an exception raised in any step of execute_analysis is caught
\* inside it: the task never ends by an exception leaving the function,
\* and once the handler has run the job is failed with the exception's
\* message as error.
C3_ExceptionsCaught ==
    \A j \in JobIds :
        /\ pc[j] # "crashed"
        /\ caught[j] # NoExc =>
              /\ pc[j] = "done"
              /\ wr[j] = <<>> =>
                    (jobs[j].status = FAILED /\ jobs[j].error = caught[j].text)
C3_Witness ==
    \E j \in JobIds :
        /\ Finished(j)
        /\ caught[j] = FieldError(80)
        /\ jobs[j].status = FAILED
        /\ jobs[j].error = FieldError(80).text

\* C4 (as stated): a run whose data selection returned items, whose
\* dataset assembly returned datasets and whose analysis and result save
\* did not fail ends with the job succeeded at progress 100.
C4_CleanRunSucceeds ==
    \A j \in JobIds :
        (/\ Finished(j)
         /\ {"items", "datasets", "result"} \subseteq Range(outcomes[j])
         /\ "save_raised" \notin Range(outcomes[j])) =>
            (jobs[j].status = SUCCEEDED /\ jobs[j].progress = 100)

\* C5: every job whose execution has started eventually has status
\* succeeded or failed with its run over, and a finished run leaves no
\* other status.
Started(j) == pc[j] \notin {"none", "scheduled"}
C5_EventuallyTerminal ==
    /\ \A j \in JobIds :
          Started(j) ~> (Finished(j) /\ jobs[j].status \in Terminal)
    /\ [](\A j \in JobIds : Finished(j) => jobs[j].status \in Terminal)
C5_Witness ==
    \E j \in JobIds :
        /\ Finished(j)
        /\ jobs[j].status \in Terminal
        /\ outcomes[j] # <<>>

\* C6: the progress passed by each update_job call that is not the
\* terminal transition is at least the progress the job had when the call
\* was made (the value of the previous call, or of create_job).
IsTerminalCall(call) ==
    \E i \in 1..Len(call) : call[i][1] = "status" /\ call[i][2] \in Terminal
CallProgress(call, current) ==
    LET ws == {i \in 1..Len(call) : call[i][1] = "progress"}
    IN IF ws = {} THEN current ELSE call[CHOOSE i \in ws : TRUE][2]
C6_ProgressMonotone ==
    [][\A j \in JobIds :
        (wr[j] = <<>> /\ wr'[j] # <<>> /\ ~IsTerminalCall(wr'[j])) =>
            CallProgress(wr'[j], jobs[j].progress) >= jobs[j].progress
      ]_vars
C6_Witness ==
    \E j \in JobIds :
        /\ Exists(j)
        /\ jobs[j].status = RUNNING
        /\ jobs[j].progress = 80
        /\ {t[2] : t \in snaps[j]} = {0, 5, 10, 20, 40, 50, 80}

NotReady == {QUEUED, RUNNING, FAILED}
C8_NotReadyIs400 ==
    client.kind = "results_response" =>
        /\ client.code = 200 => client.seen = SUCCEEDED
        /\ client.seen \in NotReady => client.code = 400
        /\ client.seen = None => client.code = 404
\* C8 (amended): a result is returned only for a succeeded job; a results
\* request for an existing job of the requested project that is queued,
\* running or failed is answered 400; a request for an existing job of
\* another project is answered 403 whatever its status; a request for an
\* unknown job id is answered 404.
C8_NotReadyInProjectIs400 ==
    client.kind = "results_response" =>
        /\ client.code = 200 => client.seen = SUCCEEDED
        /\ (client.seen \in NotReady /\ client.owner = client.project) =>
              client.code = 400
        /\ (client.seen # None /\ client.owner # client.project) =>
              client.code = 403
        /\ client.seen = None => client.code = 404
C8_Witness ==
    /\ client.kind = "results_response"
    /\ client.seen = RUNNING
    /\ client.owner = client.project
    /\ client.code = 400

\* C9 (as stated): the (status, progress, message) triple a status query
\* returns is one the job had between two update_job calls, never a
\* mixture of the fields before and after a call.
C9_NoTornRead ==
    (client.kind = "status_response" /\ client.code = 200) =>
        <<client.got[1], client.got[2], client.got[3]>> \in snaps[client.jobId]

\* C10: a submission in single mode without events (missing or empty),
\* baselineWindow or responseWindow, or in multi mode without groups
\* (missing or empty), or whose columnMap lacks behavior or start, is
\* rejected: no job is added to the registry, no task is scheduled.
Lacks(v) == v \in {"missing", "null", "empty", ""}
C10_Invalid(req) ==
    \/ /\ req.mode = "single"
       /\ \/ Lacks(req.events)
          \/ Lacks(req.baselineWindow)
          \/ Lacks(req.responseWindow)
    \/ req.mode = "multi" /\ Lacks(req.groups)
    \/ Lacks(req.behavior)
    \/ Lacks(req.start)
C10_RejectedBeforeCreation ==
    [][(client'.kind = "submitted" /\ C10_Invalid(client'.req)) =>
          /\ client'.code \in {400, 422}
          /\ client'.jobId = 0
          /\ jobs' = jobs
          /\ pc' = pc
      ]_vars
C10_Witness ==
    /\ client.kind = "submitted"
    /\ client.req.mode = "single"
    /\ client.req.events = "nonempty"
    /\ client.req.baselineWindow = "missing"
    /\ client.code = 400
    /\ \E j \in JobIds : Exists(j) /\ pc[j] = "scheduled"

\* C11 (as stated): a submission whose selection has no data item ids
\* (missing or empty list) and either no tag filter or a tag filter whose
\* AND list and OR list are both empty is rejected before any job is
\* created: no job enters the registry.
C11_Invalid(req) ==
    /\ req.dataItemIds \in {"missing", "null", "empty"}
    /\ req.tagFilter \in {"missing", "null", "empty_lists"}
C11_InvalidSelectionRejected ==
    [][(client'.kind = "submitted" /\ C11_Invalid(client'.req)) =>
          /\ client'.code \in {400, 422}
          /\ client'.jobId = 0
          /\ jobs' = jobs
      ]_vars

\* C12 (as stated): for a selection given as a tag filter with AND list A
\* and OR list O, not both empty, and no data item ids, resolve_data_items
\* returns exactly the data items of the project that carry every tag in A
\* and, when O is non-empty, at least one tag in O.
Carries(item, A, O) ==
    /\ A \subseteq item.tagIds
    /\ O # {} => O \cap item.tagIds # {}
C12_TagFilterSelects ==
    (/\ invoked.fn = "resolve_data_items"
     /\ ret # Pending
     /\ invoked.selection.dataItemIds \in {NoIds, {}}
     /\ invoked.selection.tagFilter # NoTagFilter
     /\ invoked.selection.tagFilter.and_tags \cup invoked.selection.tagFilter.or_tags # {}) =>
        ret = Returned({i \in ItemIds :
                  /\ invoked.db[i].projectId = invoked.project_id
                  /\ Carries(invoked.db[i], invoked.selection.tagFilter.and_tags,
                             invoked.selection.tagFilter.or_tags)})

Expected(before, args, field) ==
    LET absent == IF field = "progress" THEN -1 ELSE None
    IN IF args[field] = absent THEN before[field] ELSE args[field]
SnapshotBehind(c) ==
    c.fn = "update_job" /\ files[c.job_id] # c.before
C14_SnapshotFailureHarmless ==
    [][(/\ invoked = NoCall
        /\ invoked'.fn \in {"create_job", "update_job"}
        /\ ~invoked'.written \/ SnapshotBehind(invoked')) =>
          LET i == RegIndex(registry', invoked'.job_id)
              job == registry'[i]
          IN /\ i # 0
             /\ ret' = Returned(job)
             /\ IF invoked'.fn = "create_job"
                THEN /\ job.status = QUEUED
                     /\ job.progress = 0
                     /\ job.message = "Task queued"
                     /\ job.error = None
                ELSE \A field \in {"status", "progress", "message", "error"} :
                         job[field] =
                             Expected(invoked'.before, invoked'.args, field)
      ]_vars
C14_Witness ==
    /\ invoked.fn = "update_job"
    /\ ~invoked.written
    /\ files[invoked.job_id] = NoJob
    /\ invoked.before.status = RUNNING
    /\ ret.kind = "returned"
    /\ registry[RegIndex(registry, invoked.job_id)].status = FAILED
    /\ registry[RegIndex(registry, invoked.job_id)].error
           = NoItemsError(5).text

\* C15: list_project_jobs(project_id, skip, limit) returns exactly the
\* jobs of the registry whose projectId is project_id, in descending
\* order of creation time, restricted to the positions [skip, skip+limit)
\* of that order; no job of another project is returned.
C15_ListedPage ==
    [][(invoked = NoCall /\ invoked'.fn = "list_project_jobs") =>
          LET page == ret'.value
              skip == invoked'.skip
              limit == invoked'.limit
              mine == {i \in 1..Len(registry) :
                          registry[i].projectId = invoked'.project_id}
              rest == IF Cardinality(mine) > skip
                      THEN Cardinality(mine) - skip ELSE 0
              Newer(t) == {i \in mine : registry[i].createdAt > t}
              NotOlder(t) == {i \in mine : registry[i].createdAt >= t}
          IN /\ ret'.kind = "returned"
             /\ Len(page) = IF limit < rest THEN limit ELSE rest
             /\ \A k \in 1..Len(page) :
                   /\ page[k].projectId = invoked'.project_id
                   /\ \E i \in mine : page[k] = JobStatusResponse(registry[i])
                   /\ Cardinality(Newer(page[k].createdAt)) <= skip + k - 1
                   /\ Cardinality(NotOlder(page[k].createdAt)) >= skip + k
             /\ \A k, l \in 1..Len(page) :
                   /\ k < l => page[k].createdAt >= page[l].createdAt
                   /\ k # l => page[k].jobId # page[l].jobId
      ]_vars
C15_Witness ==
    /\ invoked.fn = "list_project_jobs"
    /\ invoked.project_id = "P1"
    /\ invoked.skip = 1
    /\ invoked.limit = 1
    /\ Len(registry) = 3
    /\ registry[1].projectId = "P1" /\ registry[1].createdAt = 0
    /\ registry[2].projectId = "P2" /\ registry[2].createdAt = 1
    /\ registry[3].projectId = "P1" /\ registry[3].createdAt = 2
    /\ ret = Returned(<<JobStatusResponse(registry[1])>>)

\* C16 (as stated): cleanup_old_jobs(max_age_hours) removes exactly the
\* jobs that are succeeded or failed and older than max_age_hours and
\* returns their count, never removing a queued or running job or a
\* terminal job within the retention age, also when it runs while other
\* jobs are created or updated: the call returns, the jobs that were due
\* when it began are gone, every removed job was terminal and older than
\* max_age_hours, and the count is the number of removed jobs.
C16_CleanupExact ==
    /\ sweep.phase # "raised"
    /\ sweep.phase = "returned" =>
          /\ sweep.count = Len(sweep.deleted)
          /\ \A job_id \in sweep.due : RegIndex(registry, job_id) = 0
          /\ \A k \in 1..Len(sweep.deleted) :
                /\ sweep.deleted[k].status \in Terminal
                /\ sweep.current_time - sweep.deleted[k].createdAt
                      > sweep.max_age_hours

\* C17: for every header, load_fluorescence_data fails if some detected
\* channel number has only one of its 410 / 470 columns, fails if no
\* channel pair exists, and otherwise returns exactly one Channel per
\* channel number that has both columns, named CH<n>.
Detected(columns) ==
    {columns[i].digits : i \in {k \in 1..Len(columns) :
                                   channel_pattern_match(columns[k])}}
HasColumn(columns, n, wl) ==
    \E i \in 1..Len(columns) :
        /\ channel_pattern_match(columns[i])
        /\ columns[i].digits = n
        /\ columns[i].wl = wl
Paired(columns) ==
    {n \in Detected(columns) :
        HasColumn(columns, n, "410") /\ HasColumn(columns, n, "470")}
C17_ChannelPairs ==
    (invoked.fn = "load_fluorescence_data" /\ ret # Pending) =>
        LET columns == invoked.columns
        IN IF Paired(columns) # Detected(columns) \/ Paired(columns) = {}
           THEN ret.kind = "raised" /\ ret.exc.type = "ValueError"
           ELSE /\ ret.kind = "returned"
                /\ Len(ret.value) = Cardinality(Paired(columns))
                /\ {ret.value[k].name : k \in 1..Len(ret.value)}
                      = {<<"CH", n>> : n \in Paired(columns)}
C17_Witness ==
    /\ invoked.fn = "load_fluorescence_data"
    /\ invoked.columns = <<Col("CH", <<1>>, "410"), Col("Time", <<>>, ""),
                           Col("CH", <<2>>, "470"), Col("CH", <<2>>, "410")>>
    /\ ret = Raised(ValueError("Channel is missing 410 or 470 wavelength data"))

\* C18 (as stated): for every recording and every list of mask ranges
\* (start, end), the masked signals of a channel are exactly the samples
\* whose index lies in no mask range [start*fps, end*fps), in their
\* original order, the same indices being removed from both signals.
\* (Mask times are in half seconds, so start*fps is start * fps / 2.)
InSomeMask(masks, fps, index) ==
    \E m \in 1..Len(masks) :
        /\ masks[m].start * fps <= 2 * index
        /\ 2 * index < masks[m].end * fps
Unmasked(masks, fps, rows) ==
    {i \in 0..(rows - 1) : ~InSomeMask(masks, fps, i)}
RowsOf(signal) == [k \in 1..Len(signal) |-> signal[k].row]
Ascending(seq) == \A k, l \in 1..Len(seq) : k < l => seq[k] < seq[l]
C18_MaskedSamples ==
    (invoked.fn = "load_fluorescence_data" /\ ret # Pending
     /\ invoked.masks # <<>>) =>
        /\ ret.kind = "returned"
        /\ \A c \in 1..Len(ret.value) :
              LET ch == ret.value[c]
              IN /\ RowsOf(ch.baseline_410) = RowsOf(ch.signal_470)
                 /\ Ascending(RowsOf(ch.baseline_410))
                 /\ {ch.baseline_410[k].row : k \in 1..Len(ch.baseline_410)}
                       = Unmasked(invoked.masks, invoked.fps, invoked.rows)

\* C19: for every event list and group, the warped event sequences are
\* exactly the maximal runs of consecutive events, in start-time order,
\* whose labels all belong to the group's event set and whose length is
\* at least 2; an event with a label outside the set ends the run and
\* belongs to no run.
IsMaximalRun(sorted, event_labels, i, j) ==
    /\ i <= j
    /\ \A k \in i..j : sorted[k].label \in event_labels
    /\ i > 1 => sorted[i - 1].label \notin event_labels
    /\ j < Len(sorted) => sorted[j + 1].label \notin event_labels
C19_MaximalRuns ==
    (invoked.fn = "event_sequences" /\ ret # Pending) =>
        LET sorted == SortByStart(invoked.events)
            runs == {r \in (1..Len(sorted)) \X (1..Len(sorted)) :
                        /\ IsMaximalRun(sorted, invoked.event_labels,
                                        r[1], r[2])
                        /\ r[2] - r[1] + 1 >= 2}
            sequences == ret.value
        IN /\ Len(sequences) = Cardinality(runs)
           /\ \A r \in runs :
                 \E n \in 1..Len(sequences) :
                     /\ sequences[n] = SubSeq(sorted, r[1], r[2])
                     /\ n = Cardinality({q \in runs : q[1] <= r[1]})
           /\ \A n \in 1..Len(sequences) :
                 \A k \in 1..Len(sequences[n]) :
                     sequences[n][k].label \in invoked.event_labels
C19_Witness ==
    /\ invoked.fn = "event_sequences"
    /\ invoked.event_labels = {"A", "B"}
    /\ invoked.events = <<[label |-> "B", start_time |-> 1],
                          [label |-> "C", start_time |-> 1],
                          [label |-> "A", start_time |-> 0],
                          [label |-> "B", start_time |-> 0],
                          [label |-> "A", start_time |-> 0]>>
    /\ ret = Returned(<<<<[label |-> "A", start_time |-> 0],
                          [label |-> "B", start_time |-> 0],
                          [label |-> "A", start_time |-> 0],
                          [label |-> "B", start_time |-> 1]>>>>)
\* C20: in every result analyze_single_event or time_warp_alignment
\* returns, each matrix has as many heatmap rows as trial ids, every
\* heatmap row has as many values as the matrix's xAxis, and each
\* curve's mean and sem have as many values as the curve's xAxis.
C20_ResultShapes ==
    (/\ invoked.fn \in {"analyze_single_event", "time_warp_alignment"}
     /\ ret # Pending
     /\ ret.kind = "returned") =>
        /\ \A m \in 1..Len(ret.value.matrices) :
              LET matrix == ret.value.matrices[m]
              IN /\ Len(matrix.heatmap) = Len(matrix.trialIds)
                 /\ \A r \in 1..Len(matrix.heatmap) :
                       matrix.heatmap[r] = matrix.xAxis
        /\ \A c \in 1..Len(ret.value.curves) :
              LET curve == ret.value.curves[c]
              IN curve.mean = curve.xAxis /\ curve.sem = curve.xAxis
C20_Witness ==
    /\ invoked.fn = "time_warp_alignment"
    /\ ret # Pending
    /\ ret.kind = "returned"
    /\ Len(ret.value.matrices) = Len(invoked.groups)
    /\ \E m \in 1..Len(ret.value.matrices) :
          LET sequences ==
                  event_sequences(invoked.events, invoked.groups[m].events)
          IN /\ Len(ret.value.matrices[m].heatmap) = 2
             /\ ret.value.matrices[m].xAxis = 2 * target_segment_length
             /\ \E n \in 1..Len(sequences) :
                   time_warp_signal(invoked.len_signal,
                       [k \in 1..Len(sequences[n]) |->
                           sequences[n][k].start_time * invoked.fps],
                       target_segment_length) = target_segment_length


\* C21: when a channel/event (or channel/group) combination has matching
\* events but yields no valid trial, another one yields trials and
\* nothing else goes wrong, the analysis still returns a result: it holds
\* exactly the keys of the combinations that do yield trials, in single
\* and in multi mode.
NoValidTrials == Raised(ValueError("No valid trials could be processed"))
KeyResult(c, k) ==
    IF c.fn = "analyze_single_event"
    THEN calculate_df_f(c.len_signal, c.events, c.baseline_window,
                        c.response_window, c.fps, {c.event_labels[k]})
    ELSE IF event_sequences(c.events, c.groups[k].events) = <<>>
    THEN Returned([df_f |-> <<>>, time_axis |-> 0, trial_ids |-> <<>>])
    ELSE calculate_df_f_warping(c.len_signal,
             event_sequences(c.events, c.groups[k].events), c.fps,
             target_segment_length)
KeyNames(c) ==
    IF c.fn = "analyze_single_event"
    THEN c.event_labels
    ELSE [k \in 1..Len(c.groups) |-> c.groups[k].groupName]
C21_ZeroTrialKeyOmitted ==
    (/\ invoked.fn \in {"analyze_single_event", "time_warp_alignment"}
     /\ ret # Pending) =>
        LET names == KeyNames(invoked)
            Empty(k) ==
                \/ KeyResult(invoked, k) = NoValidTrials
                \/ /\ invoked.fn = "time_warp_alignment"
                   /\ KeyResult(invoked, k).kind = "raised"
            Good(k) ==
                /\ KeyResult(invoked, k).kind = "returned"
                /\ Len(KeyResult(invoked, k).value.df_f) > 0
        IN (/\ \E k \in 1..Len(names) : Empty(k)
            /\ \E k \in 1..Len(names) : Good(k)
            /\ \A k \in 1..Len(names) :
                  Empty(k) \/ KeyResult(invoked, k).kind = "returned") =>
               /\ ret.kind = "returned"
               /\ {ret.value.matrices[m].key :
                      m \in 1..Len(ret.value.matrices)}
                  = {<<"CH1", names[k]>> :
                        k \in {n \in 1..Len(names) : Good(n)}}


\* C25: for one channel and one event label, all trials the z-score
\* algorithm produces have the same number of samples, whatever the event
\* times (also with a window clamped at the start or the end of the
\* signal), so that stacking the trials of a key never fails.
StackingError ==
    Raised(ValueError("all the input array dimensions must match"))
C25_TrialsStack ==
    (invoked.fn = "analyze_single_event" /\ ret # Pending) =>
        /\ ret # StackingError
        /\ \A k \in 1..Len(invoked.event_labels) :
              calculate_df_f(invoked.len_signal, invoked.events,
                             invoked.baseline_window,
                             invoked.response_window, invoked.fps,
                             {invoked.event_labels[k]}) # StackingError

\* C30: a run of events none of whose inter-event segments is valid
\* (consecutive events on one sample index, or a segment ending past the
\* end of the recording) contributes no trial to the matrix, and a run
\* with s valid segments contributes a trial of s * target_length
\* samples.
ValidSegments(c, run) ==
    {i \in 1..(Len(run) - 1) :
        /\ run[i].start_time * c.fps < run[i + 1].start_time * c.fps
        /\ run[i + 1].start_time * c.fps <= c.len_signal}
C30_WarpedTrialSegments ==
    (/\ invoked.fn = "time_warp_alignment"
     /\ ret # Pending
     /\ ret.kind = "returned") =>
        \A m \in 1..Len(ret.value.matrices) :
            LET matrix == ret.value.matrices[m]
                group == CHOOSE g \in Range(invoked.groups) :
                             matrix.key = <<"CH1", g.groupName>>
                runs == event_sequences(invoked.events, group.events)
                trials == {n \in 1..Len(runs) :
                              ValidSegments(invoked, runs[n]) # {}}
            IN /\ Len(matrix.heatmap) = Cardinality(trials)
               /\ \A n \in trials :
                     \E r \in 1..Len(matrix.heatmap) :
                         matrix.heatmap[r]
                             = Cardinality(ValidSegments(invoked, runs[n]))
                               * target_segment_length


\* C27: in the result of an analysis over any list of datasets, no two
\* matrix entries have the same key and every matrix key has exactly one
\* curve entry with that key.
C27_KeysUnique ==
    (invoked.fn = "analyze" /\ ret # Pending /\ ret.kind = "returned") =>
        LET matrices == ret.value.matrices
            curves == ret.value.curves
        IN /\ \A m, n \in 1..Len(matrices) :
                 matrices[m].key = matrices[n].key => m = n
           /\ \A m \in 1..Len(matrices) :
                 Cardinality({c \in 1..Len(curves) :
                                 curves[c].key = matrices[m].key}) = 1


\* C26: select_by_tags returns an empty result whenever a tag id of the
\* AND list or of the OR list is not an integer, and never returns all
\* the data items of the project in that case.
C26_InvalidTagEmpty ==
    (/\ invoked.fn = "select_by_tags"
     /\ ret # Pending
     /\ \E tid \in invoked.tag_filter["and"] \cup invoked.tag_filter["or"] :
           ~isinstance_int(tid)) =>
        ret = Returned({})


\* C23: build_datasets produces, in batch order, one dataset for every
\* recording that parses, whether or not other recordings of the batch
\* fail to parse, and each dataset holds the events of exactly those of
\* its annotation files (the files find_label_files gives it) that
\* parse, in file order: a file that fails to parse only leaves out its
\* own events.
Parsed(items, content) ==
    LET HasContent(item) == item.content = content
    IN SelectSeq(items, HasContent)
C23_ParseFailuresLocal ==
    (invoked.fn = "build_datasets" /\ ret # Pending) =>
        LET data_items == DataItems(invoked.batch)
            recordings ==
                Parsed(SelectSeq(data_items, is_fluorescence_file),
                       "recording")
        IN /\ ret.kind = "returned"
           /\ Len(ret.value) = Len(recordings)
           /\ \A n \in 1..Len(recordings) :
                 LET sources == Parsed(find_label_files(recordings[n],
                                                        data_items),
                                       "annotation")
                 IN /\ ret.value[n].data_item_id = recordings[n].dataItemId
                    /\ ret.value[n].events =
                           [k \in 1..Len(sources) |->
                               [label |-> "A",
                                start_time |-> sources[k].dataItemId]]
C23_Witness ==
    /\ invoked.fn = "build_datasets"
    /\ ret # Pending
    /\ Len(SelectSeq(DataItems(invoked.batch), is_fluorescence_file)) = 2
    /\ Len(ret.value) = 1
    /\ Len(ret.value[1].label_files) = 2
    /\ ret.value[1].label_files[1] < ret.value[1].data_item_id
    /\ ret.value[1].events
           = <<[label |-> "A", start_time |-> ret.value[1].label_files[2]]>>

KeyOf(dataItemId) ==
    {str(dataItemId)} \cup {str(dataItemId) \o <<":">> \o <<c>> : c \in {"C"}}
C29_MasksOfOwnItem ==
    (invoked.fn = "build_datasets" /\ ret # Pending) =>
        \A n \in 1..Len(ret.value) :
            LET own == SelectSeq(invoked.request.masks,
                           LAMBDA entry :
                               entry.key \in KeyOf(ret.value[n].data_item_id))
            IN Len(ret.value[n].channels.masks) = Len(own)


\* ---------------------------------------------------------------------
\* Runs without any trial (execute_analysis, fluorescence_service.py:275-337)

====
